---- MODULE Spec2Model ----
(***************************************************************************)
(* A model of the hexagram transformation search of the iching crate:      *)
(* the static catalogue of trigrams and hexagrams and the throws of a      *)
(* reading (iching.rs), the catalogue of search operations, the            *)
(* breadth-first search of HexagramSearcher, SequenceAnalysis and          *)
(* find_min_random_sequence (iching_analyzer.rs).                          *)
(***************************************************************************)
EXTENDS Integers, Sequences, FiniteSets, TLC

(***************************************************************************)
(* Lines, trigrams, hexagrams (iching.rs)                                  *)
(***************************************************************************)

\* enum Line { Open, Closed }
Line == {"Open", "Closed"}

\* Line::inverse
LineInverse(l) == IF l = "Open" THEN "Closed" ELSE "Open"

\* impl From<u8> for Line: 0 is Open, every other value is Closed.
LineFrom(n) == IF n = 0 THEN "Open" ELSE "Closed"

\* static TRIGRAMS: [(u8, [u8; 3]); 8]
TRIGRAMS ==
    << <<1, <<1, 1, 1>>>>,
       <<2, <<1, 0, 0>>>>,
       <<3, <<0, 1, 0>>>>,
       <<4, <<0, 0, 1>>>>,
       <<5, <<0, 0, 0>>>>,
       <<6, <<0, 1, 1>>>>,
       <<7, <<1, 0, 1>>>>,
       <<8, <<1, 1, 0>>>> >>
\* create_trigram(number, lines)
create_trigram(number, lines) ==
    [number |-> number,
     lines  |-> <<LineFrom(lines[1]), LineFrom(lines[2]), LineFrom(lines[3])>>]

\* The value of an Option that is None; unwrap() of it panics.
None == [number |-> 0, lines |-> <<>>]

\* trigram_index(): the entries are inserted in table order, so of two
\* entries with the same lines the later one stays in the map.
trigram_index ==
    LET created(table, i) == create_trigram(table[i][1], table[i][2])
        last(table, k) == CHOOSE i \in 1..Len(table) :
                             /\ created(table, i).lines = k
                             /\ \A j \in 1..Len(table) :
                                   created(table, j).lines = k => j <= i
        insert_all(table) ==
            [k \in {created(table, i).lines : i \in 1..Len(table)} |->
                created(table, last(table, k))]
    IN  insert_all(TRIGRAMS)

\* lazy_static TRIGRAM_INDEX
TRIGRAM_INDEX == trigram_index @@ <<>>

\* TRIGRAM_INDEX.get(&lines)
TrigramIndexGet(lines) ==
    LET get(index) == IF lines \in DOMAIN index THEN index[lines] ELSE None
    IN  get(TRIGRAM_INDEX)

\* HexagramLine::line_to_index counting from the top line.
line_to_index_from_top(line) ==
    CASE line = "First"  -> 6
      [] line = "Second" -> 5
      [] line = "Third"  -> 4
      [] line = "Fourth" -> 3
      [] line = "Fifth"  -> 2
      [] line = "Sixth"  -> 1

\* HexagramLine::line_to_index, as a 1-based index of a TLA+ tuple.
line_to_index(line) ==
    CASE line = "First"  -> 1
      [] line = "Second" -> 2
      [] line = "Third"  -> 3
      [] line = "Fourth" -> 4
      [] line = "Fifth"  -> 5
      [] line = "Sixth"  -> 6

\* pub static HEXAGRAMS: [(u8, [u8; 6]); 64]
HEXAGRAMS ==
    << <<1, <<1, 1, 1, 1, 1, 1>>>>,
       <<2, <<0, 0, 0, 0, 0, 0>>>>,
       <<3, <<1, 0, 0, 0, 1, 0>>>>,
       <<4, <<0, 1, 0, 0, 0, 1>>>>,
       <<5, <<1, 1, 1, 0, 1, 0>>>>,
       <<6, <<0, 1, 0, 1, 1, 1>>>>,
       <<7, <<0, 1, 0, 0, 0, 0>>>>,
       <<8, <<0, 0, 0, 0, 1, 0>>>>,
       <<9, <<1, 1, 1, 0, 1, 1>>>>,
       <<10, <<1, 1, 0, 1, 1, 1>>>>,
       <<11, <<1, 1, 1, 0, 0, 0>>>>,
       <<12, <<0, 0, 0, 1, 1, 1>>>>,
       <<13, <<1, 0, 1, 1, 1, 1>>>>,
       <<14, <<1, 1, 1, 1, 0, 1>>>>,
       <<15, <<0, 0, 1, 0, 0, 0>>>>,
       <<16, <<0, 0, 0, 1, 0, 0>>>>,
       <<17, <<1, 0, 0, 1, 1, 0>>>>,
       <<18, <<0, 1, 1, 0, 0, 1>>>>,
       <<19, <<1, 1, 0, 0, 0, 0>>>>,
       <<20, <<0, 0, 0, 0, 1, 1>>>>,
       <<21, <<1, 0, 0, 1, 0, 1>>>>,
       <<22, <<1, 0, 1, 0, 0, 1>>>>,
       <<23, <<0, 0, 0, 0, 0, 1>>>>,
       <<24, <<1, 0, 0, 0, 0, 0>>>>,
       <<25, <<1, 0, 0, 1, 1, 1>>>>,
       <<26, <<1, 1, 1, 0, 0, 1>>>>,
       <<27, <<1, 0, 0, 0, 0, 1>>>>,
       <<28, <<0, 1, 1, 1, 1, 0>>>>,
       <<29, <<0, 1, 0, 0, 1, 0>>>>,
       <<30, <<1, 0, 1, 1, 0, 1>>>>,
       <<31, <<0, 0, 1, 1, 1, 0>>>>,
       <<32, <<0, 1, 1, 1, 0, 0>>>>,
       <<33, <<0, 0, 1, 1, 1, 1>>>>,
       <<34, <<1, 1, 1, 1, 0, 0>>>>,
       <<35, <<0, 0, 0, 1, 0, 1>>>>,
       <<36, <<1, 0, 1, 0, 0, 0>>>>,
       <<37, <<1, 0, 1, 0, 1, 1>>>>,
       <<38, <<1, 1, 0, 1, 0, 1>>>>,
       <<39, <<0, 0, 1, 0, 1, 0>>>>,
       <<40, <<0, 1, 0, 1, 0, 0>>>>,
       <<41, <<1, 1, 0, 0, 0, 1>>>>,
       <<42, <<1, 0, 0, 0, 1, 1>>>>,
       <<43, <<1, 1, 1, 1, 1, 0>>>>,
       <<44, <<0, 1, 1, 1, 1, 1>>>>,
       <<45, <<0, 0, 0, 1, 1, 0>>>>,
       <<46, <<0, 1, 1, 0, 0, 0>>>>,
       <<47, <<0, 1, 0, 1, 1, 0>>>>,
       <<48, <<0, 1, 1, 0, 1, 0>>>>,
       <<49, <<1, 0, 1, 1, 1, 0>>>>,
       <<50, <<0, 1, 1, 1, 0, 1>>>>,
       <<51, <<1, 0, 0, 1, 0, 0>>>>,
       <<52, <<0, 0, 1, 0, 0, 1>>>>,
       <<53, <<0, 0, 1, 0, 1, 1>>>>,
       <<54, <<1, 1, 0, 1, 0, 0>>>>,
       <<55, <<1, 0, 1, 1, 0, 0>>>>,
       <<56, <<0, 0, 1, 1, 0, 1>>>>,
       <<57, <<0, 1, 1, 0, 1, 1>>>>,
       <<58, <<1, 1, 0, 1, 1, 0>>>>,
       <<59, <<0, 1, 0, 0, 1, 1>>>>,
       <<60, <<1, 1, 0, 0, 1, 0>>>>,
       <<61, <<1, 1, 0, 0, 1, 1>>>>,
       <<62, <<0, 0, 1, 1, 0, 0>>>>,
       <<63, <<1, 0, 1, 0, 1, 0>>>>,
       <<64, <<0, 1, 0, 1, 0, 1>>>> >>

\* create_hexagram with the sixth line read from the fifth input line.
create_hexagram_repeating_fifth(number, input_lines) ==
    [number |-> number,
     lines  |-> [i \in 1..6 |-> LineFrom(input_lines[IF i = 6 THEN 5 ELSE i])]]

\* create_hexagram(number, input_lines)
create_hexagram(number, input_lines) ==
    [number |-> number,
     lines  |-> [i \in 1..6 |-> LineFrom(input_lines[i])]]

\* hexagram_index() with the last table entry left out of the map.
hexagram_index_without_last ==
    LET created(table, i) == create_hexagram(table[i][1], table[i][2])
    IN  [k \in {created(HEXAGRAMS, i).lines : i \in 1..(Len(HEXAGRAMS) - 1)} |->
            created(HEXAGRAMS,
                    CHOOSE i \in 1..(Len(HEXAGRAMS) - 1) : created(HEXAGRAMS, i).lines = k)]

\* hexagram_index(): built like trigram_index.
hexagram_index ==
    LET created(table, i) == create_hexagram(table[i][1], table[i][2])
        last(table, k) == CHOOSE i \in 1..Len(table) :
                             /\ created(table, i).lines = k
                             /\ \A j \in 1..Len(table) :
                                   created(table, j).lines = k => j <= i
        insert_all(table) ==
            [k \in {created(table, i).lines : i \in 1..Len(table)} |->
                created(table, last(table, k))]
    IN  insert_all(HEXAGRAMS)

\* lazy_static HEXAGRAM_INDEX
HEXAGRAM_INDEX == hexagram_index @@ <<>>

\* HEXAGRAM_INDEX.get(&lines).copied().unwrap(); None stands for the panic.
HexagramIndexGet(lines) ==
    LET get(index) == IF lines \in DOMAIN index THEN index[lines] ELSE None
    IN  get(HEXAGRAM_INDEX)

\* Hexagram::trigrams returning the pair in the order (top, bottom).
trigrams_top_first(h) ==
    LET bl == <<h.lines[1], h.lines[2], h.lines[3]>>
        tl == <<h.lines[4], h.lines[5], h.lines[6]>>
    IN  [bottom |-> [number |-> TrigramIndexGet(tl).number, lines |-> tl],
         top    |-> [number |-> TrigramIndexGet(bl).number, lines |-> bl]]

\* Hexagram::trigrams
trigrams(h) ==
    LET bl == <<h.lines[1], h.lines[2], h.lines[3]>>
        tl == <<h.lines[4], h.lines[5], h.lines[6]>>
    IN  [bottom |-> [number |-> TrigramIndexGet(bl).number, lines |-> bl],
         top    |-> [number |-> TrigramIndexGet(tl).number, lines |-> tl]]

\* Hexagram::num_line_changes
num_line_changes(h, other) ==
    Cardinality({i \in 1..6 : h.lines[i] # other.lines[i]})

\* Hexagram::inverse with the sixth line left as it is.
inverse_five_lines(h) ==
    HexagramIndexGet(<<LineInverse(h.lines[1]), LineInverse(h.lines[2]),
                       LineInverse(h.lines[3]), LineInverse(h.lines[4]),
                       LineInverse(h.lines[5]), h.lines[6]>>)

\* Hexagram::inverse
inverse(h) ==
    HexagramIndexGet(<<LineInverse(h.lines[1]), LineInverse(h.lines[2]),
                       LineInverse(h.lines[3]), LineInverse(h.lines[4]),
                       LineInverse(h.lines[5]), LineInverse(h.lines[6])>>)

\* Hexagram::inverse_bottom_trigram
inverse_bottom_trigram(h) ==
    LET t == trigrams(h)
    IN  HexagramIndexGet(<<LineInverse(t.bottom.lines[1]), LineInverse(t.bottom.lines[2]),
                           LineInverse(t.bottom.lines[3]),
                           t.top.lines[1], t.top.lines[2], t.top.lines[3]>>)

\* Hexagram::inverse_top_trigram
inverse_top_trigram(h) ==
    LET t == trigrams(h)
    IN  HexagramIndexGet(<<t.bottom.lines[1], t.bottom.lines[2], t.bottom.lines[3],
                           LineInverse(t.top.lines[1]), LineInverse(t.top.lines[2]),
                           LineInverse(t.top.lines[3])>>)

\* Hexagram::inverse_line
inverse_line(h, line) ==
    LET index == line_to_index(line)
    IN  HexagramIndexGet([h.lines EXCEPT ![index] = LineInverse(h.lines[index])])

\* Hexagram::reverse
reverse(h) ==
    HexagramIndexGet(<<h.lines[6], h.lines[5], h.lines[4],
                       h.lines[3], h.lines[2], h.lines[1]>>)

\* Hexagram::reverse_bottom_trigram with the bottom lines rotated by one
\* place instead of reversed.
rotate_bottom_trigram(h) ==
    LET t == trigrams(h)
    IN  HexagramIndexGet(<<t.bottom.lines[3], t.bottom.lines[1], t.bottom.lines[2],
                           t.top.lines[1], t.top.lines[2], t.top.lines[3]>>)

\* Hexagram::reverse_bottom_trigram
reverse_bottom_trigram(h) ==
    LET t == trigrams(h)
    IN  HexagramIndexGet(<<t.bottom.lines[3], t.bottom.lines[2], t.bottom.lines[1],
                           t.top.lines[1], t.top.lines[2], t.top.lines[3]>>)

\* Hexagram::reverse_top_trigram
reverse_top_trigram(h) ==
    LET t == trigrams(h)
    IN  HexagramIndexGet(<<t.bottom.lines[1], t.bottom.lines[2], t.bottom.lines[3],
                           t.top.lines[3], t.top.lines[2], t.top.lines[1]>>)

\* Hexagram::reverse_trigrams, which no operation calls: the reversed top
\* trigram below the reversed bottom trigram.
reverse_trigrams(h) ==
    LET t == trigrams(h)
    IN  HexagramIndexGet(<<t.top.lines[3], t.top.lines[2], t.top.lines[1],
                           t.bottom.lines[3], t.bottom.lines[2], t.bottom.lines[1]>>)

\* Hexagram::mirror_trigrams
mirror_trigrams(h) ==
    LET t == trigrams(h)
    IN  HexagramIndexGet(<<t.bottom.lines[3], t.bottom.lines[2], t.bottom.lines[1],
                           t.top.lines[3], t.top.lines[2], t.top.lines[1]>>)

\* Hexagram::flip_trigrams is called by SearchOperation::apply and is not in
\* iching.rs; from the specification: swap the bottom and top trigrams.
flip_trigrams(h) ==
    LET t == trigrams(h)
    IN  HexagramIndexGet(<<t.top.lines[1], t.top.lines[2], t.top.lines[3],
                           t.bottom.lines[1], t.bottom.lines[2], t.bottom.lines[3]>>)

\* Hexagram::use_nuclear_trigrams, not in iching.rs; from the specification:
\* the bottom nuclear trigram (second, third, fourth line) below the top
\* nuclear trigram (third, fourth, fifth line).
use_nuclear_trigrams(h) ==
    HexagramIndexGet(<<h.lines[2], h.lines[3], h.lines[4],
                       h.lines[3], h.lines[4], h.lines[5]>>)

\* Hexagram::mix_trigrams_bottom_first, not in iching.rs; from the
\* specification: the lines of the two trigrams interleaved, the bottom
\* trigram's line first.
mix_trigrams_bottom_first(h) ==
    LET t == trigrams(h)
    IN  HexagramIndexGet(<<t.bottom.lines[1], t.top.lines[1], t.bottom.lines[2],
                           t.top.lines[2], t.bottom.lines[3], t.top.lines[3]>>)

\* Hexagram::mix_trigrams_top_first, not in iching.rs; from the
\* specification: the same with the top trigram's line first.
mix_trigrams_top_first(h) ==
    LET t == trigrams(h)
    IN  HexagramIndexGet(<<t.top.lines[1], t.bottom.lines[1], t.top.lines[2],
                           t.bottom.lines[2], t.top.lines[3], t.bottom.lines[3]>>)

(***************************************************************************)
(* Search operations (iching_analyzer.rs)                                  *)
(***************************************************************************)

\* SearchOperation::NoOp
NoOp == <<"NoOp">>

\* all_operations without its last two entries, the two MixTrigrams
\* operations.
all_operations_without_mix ==
    << <<"InverseLine", "First">>,
       <<"InverseLine", "Second">>,
       <<"InverseLine", "Third">>,
       <<"InverseLine", "Fourth">>,
       <<"InverseLine", "Fifth">>,
       <<"InverseLine", "Sixth">>,
       <<"InverseBottomTrigram">>,
       <<"InverseTopTrigram">>,
       <<"ReverseBottomTrigram">>,
       <<"ReverseTopTrigram">>,
       <<"FlipTrigrams">>,
       <<"MirrorTrigrams">>,
       <<"NuclearTrigrams">>,
       <<"InverseHexagram">>,
       <<"ReverseHexagram">> >>

\* SearchOperation::all_operations, in the order of the vec!
all_operations ==
    << <<"InverseLine", "First">>,
       <<"InverseLine", "Second">>,
       <<"InverseLine", "Third">>,
       <<"InverseLine", "Fourth">>,
       <<"InverseLine", "Fifth">>,
       <<"InverseLine", "Sixth">>,
       <<"InverseBottomTrigram">>,
       <<"InverseTopTrigram">>,
       <<"ReverseBottomTrigram">>,
       <<"ReverseTopTrigram">>,
       <<"FlipTrigrams">>,
       <<"MirrorTrigrams">>,
       <<"NuclearTrigrams">>,
       <<"InverseHexagram">>,
       <<"ReverseHexagram">>,
       <<"MixTrigramsBottomFirst">>,
       <<"MixTrigramsTopFirst">> >>

\* SearchOperation::apply
apply(operation, hexagram) ==
    CASE operation[1] = "InverseLine"            -> inverse_line(hexagram, operation[2])
      [] operation[1] = "InverseHexagram"        -> inverse(hexagram)
      [] operation[1] = "InverseBottomTrigram"   -> inverse_bottom_trigram(hexagram)
      [] operation[1] = "InverseTopTrigram"      -> inverse_top_trigram(hexagram)
      [] operation[1] = "ReverseHexagram"        -> reverse(hexagram)
      [] operation[1] = "ReverseTopTrigram"      -> reverse_top_trigram(hexagram)
      [] operation[1] = "ReverseBottomTrigram"   -> reverse_bottom_trigram(hexagram)
      [] operation[1] = "FlipTrigrams"           -> flip_trigrams(hexagram)
      [] operation[1] = "MirrorTrigrams"         -> mirror_trigrams(hexagram)
      [] operation[1] = "NuclearTrigrams"        -> use_nuclear_trigrams(hexagram)
      [] operation[1] = "MixTrigramsBottomFirst" -> mix_trigrams_bottom_first(hexagram)
      [] operation[1] = "MixTrigramsTopFirst"    -> mix_trigrams_top_first(hexagram)
      [] operation[1] = "NoOp"                   -> hexagram

(***************************************************************************)
(* Bounds of the model                                                     *)
(***************************************************************************)

\* The hexagram numbers given to the constructors are drawn from 0..MaxNumber.
MaxNumber == 65

\* The number of paths the frontier queue can hold before an allocation
\* fails: VecDeque::push_back then aborts the process.
MaxQueue == 4096

\* The sequences given to SequenceAnalysis::new have at most MaxSeqLen
\* elements, each in 0..MaxSeqNumber or one of 64 and 65; King Wen's
\* sequence is given to it as well.
MaxSeqLen == 3

MaxSeqNumber == 5

\* A shuffle of King Wen's sequence exchanges two of its first MaxShuffle
\* elements, or none.
MaxShuffle == 4

\* find_min_random_sequence is called with at most MaxSequences sequences.
MaxSequences == 2

\* The searches followed iteration by iteration start and end at
\* hexagrams 1..MaxLoopNumber.
MaxLoopNumber == 3

\* The greatest throw that random.org's answers are taken to add up to.
MaxThrow == 10

\* The throws drawn: the four line values 6..9, one value below them and
\* the values above them up to MaxThrow.
ThrowValues == 5..MaxThrow

(***************************************************************************)
(* Paths and the search (iching_analyzer.rs)                               *)
(***************************************************************************)

\* count_line_changes(path)
RECURSIVE count_line_changes_upto(_, _)
count_line_changes_upto(path, n) ==
    IF n < 2 THEN 0
    ELSE count_line_changes_upto(path, n - 1)
            + num_line_changes(path[n][1], path[n - 1][1])

count_line_changes(path) == count_line_changes_upto(path, Len(path))

\* The range check with the upper bound excluded.
valid_number_exclusive(number) == number >= 1 /\ number < 64

\* The range check of HexagramSearcher::new and HexagramAnalysis::new.
valid_number(number) == number >= 1 /\ number <= 64

\* HexagramSearcher::new: the result, and the indexes of HEXAGRAMS it read.
HexagramSearcher_new(s, e) ==
    IF ~valid_number(s)
    THEN [ok |-> FALSE, error |-> <<"Invalid start hexagram number", s>>,
          reads |-> <<>>]
    ELSE IF ~valid_number(e)
    THEN [ok |-> FALSE, error |-> <<"Invalid end hexagram number", e>>,
          reads |-> <<>>]
    ELSE LET created(start_lines, end_lines) ==
                [ok |-> TRUE,
                 start_hexagram |-> create_hexagram(start_lines[1], start_lines[2]),
                 end_hexagram   |-> create_hexagram(end_lines[1], end_lines[2]),
                 reads |-> <<s - 1, e - 1>>]
         IN  created(HEXAGRAMS[s], HEXAGRAMS[e])

\* The cycle check that looks at the current hexagram of the path only.
in_path_last(path, new_hexagram) == path[Len(path)][1] = new_hexagram

\* path.iter().any(|(h, _)| h == &new_hexagram)
in_path(path, new_hexagram) == \E i \in 1..Len(path) : path[i][1] = new_hexagram

\* The for loop over the operations (lines 310-327) for the popped path:
\* the goal paths it records and the paths it pushes to the back of the
\* queue, each in the order of all_operations.  An operation whose result
\* is already in the path is skipped.
try_operations(path, end_hexagram) ==
    LET new_hexagram(new_path) == new_path[Len(new_path)][1]
        new_paths ==
            [i \in 1..Len(all_operations) |->
                Append(path, <<apply(all_operations[i], path[Len(path)][1]),
                               all_operations[i]>>)]
        pushed(unseen) ==
            [found  |-> SelectSeq(unseen, LAMBDA new_path :
                                    new_hexagram(new_path) = end_hexagram),
             queued |-> SelectSeq(unseen, LAMBDA new_path :
                                    new_hexagram(new_path) # end_hexagram)]
    IN  pushed(SelectSeq(new_paths, LAMBDA new_path :
                            ~in_path(path, new_hexagram(new_path))))

\* One iteration of the while loop that breaks as soon as any goal path has
\* been recorded, whatever the length of the popped path.
search_step_first_found(st, end_hexagram) ==
    IF st.status # "running" THEN st
    ELSE IF st.queue = <<>> THEN [st EXCEPT !.status = "returned"]
    ELSE LET path == Head(st.queue)
         IN  IF st.shortest_paths # <<>>
             THEN [status |-> "returned", queue |-> Tail(st.queue),
                   shortest_paths |-> st.shortest_paths]
             ELSE LET pushed(r, q) ==
                         [status |-> IF Len(q) > MaxQueue THEN "out_of_memory"
                                     ELSE "running",
                          queue |-> q,
                          shortest_paths |-> st.shortest_paths \o r.found]
                      tried(r) == pushed(r, Tail(st.queue) \o r.queued)
                  IN  tried(try_operations(path, end_hexagram))

\* One iteration of the loop with queue.push_front instead of push_back.
search_step_push_front(st, end_hexagram) ==
    IF st.status # "running" THEN st
    ELSE IF st.queue = <<>> THEN [st EXCEPT !.status = "returned"]
    ELSE LET path_ == Head(st.queue)
         IN  IF st.shortest_paths # <<>> /\ Len(path_) >= Len(st.shortest_paths[1])
             THEN [status |-> "returned", queue |-> Tail(st.queue),
                   shortest_paths |-> st.shortest_paths]
             ELSE LET pushed(r, q) ==
                         [status |-> IF Len(q) > MaxQueue THEN "out_of_memory"
                                     ELSE "running",
                          queue |-> q,
                          shortest_paths |-> st.shortest_paths \o r.found]
                      tried(r) == pushed(r, r.queued \o Tail(st.queue))
                  IN  tried(try_operations(path_, end_hexagram))

\* One iteration of the while loop (lines 300-328): the loop's condition,
\* the pop, the break and the for loop.  A failed allocation in push_back
\* ends the process.
search_step(st, end_hexagram) ==
    IF st.status # "running" THEN st
    ELSE IF st.queue = <<>> THEN [st EXCEPT !.status = "returned"]
    ELSE LET path == Head(st.queue)
         IN  IF st.shortest_paths # <<>> /\ Len(path) >= Len(st.shortest_paths[1])
             THEN [status |-> "returned", queue |-> Tail(st.queue),
                   shortest_paths |-> st.shortest_paths]
             ELSE LET pushed(r, q) ==
                         [status |-> IF Len(q) > MaxQueue THEN "out_of_memory"
                                     ELSE "running",
                          queue |-> q,
                          shortest_paths |-> st.shortest_paths \o r.found]
                      tried(r) == pushed(r, Tail(st.queue) \o r.queued)
                  IN  tried(try_operations(path, end_hexagram))

\* n iterations of the while loop, or as many as it makes.
RECURSIVE search_steps(_, _, _)
search_steps(st, end_hexagram, n) ==
    IF st.status # "running" THEN st
    ELSE IF n = 1 THEN search_step(st, end_hexagram)
    ELSE search_steps(search_steps(st, end_hexagram, n \div 2),
                      end_hexagram, n - (n \div 2))

\* The while loop (lines 300-328), run to its end: n iterations, then
\* twice as many, until it has ended.
RECURSIVE search_loop(_, _, _)
search_loop(st, end_hexagram, n) ==
    IF st.status # "running" THEN st
    ELSE search_loop(search_steps(st, end_hexagram, n), end_hexagram, 2 * n)

\* u64::MAX, the initial value of min_lines_changed.  TLC's integers
\* are 32 bits wide, so the greatest of them stands for it; every
\* line-change count is far below either.
U64_MAX == 2147483647

\* The iterations lo..hi, in order, of the first loop of
\* find_least_lines_changed (lines 272-277), from the minimum so far.  The
\* minimum so far is a u64, never above U64_MAX; testing it first has it
\* evaluated before the later iterations are.
RECURSIVE min_lines_changed_loop(_, _, _, _)
min_lines_changed_loop(paths, min_lines_changed, lo, hi) ==
    IF lo > hi \/ min_lines_changed > U64_MAX THEN min_lines_changed
    ELSE IF lo = hi
    THEN LET line_changes == count_line_changes(paths[lo])
         IN  IF min_lines_changed = U64_MAX \/ line_changes < min_lines_changed
             THEN line_changes
             ELSE min_lines_changed
    ELSE min_lines_changed_loop(
             paths,
             min_lines_changed_loop(paths, min_lines_changed, lo, (lo + hi) \div 2),
             (lo + hi) \div 2 + 1, hi)

\* The first loop of find_least_lines_changed over paths[1..n].
min_lines_changed_upto(paths, n) == min_lines_changed_loop(paths, U64_MAX, 1, n)

\* find_least_lines_changed without its filter.
find_least_lines_changed_unfiltered(paths) == paths

\* HexagramSearcher::find_least_lines_changed
find_least_lines_changed(paths) ==
    LET min_lines_changed == min_lines_changed_upto(paths, Len(paths))
    IN  SelectSeq(paths, LAMBDA path : count_line_changes(path) = min_lines_changed)

\* HexagramSearcher::find_shortest_paths up to the end of its while loop
\* (lines 293-328).
find_shortest_paths_loop(self) ==
    search_loop([status |-> "running",
                 queue |-> << <<(<<self.start_hexagram, NoOp>>)>> >>,
                 shortest_paths |-> <<>>],
                self.end_hexagram, 1)

\* The value HexagramSearcher::find_shortest_paths returns (lines 332-336).
find_shortest_paths_return(shortest, all_paths) ==
    IF all_paths THEN shortest ELSE find_least_lines_changed(shortest)

(***************************************************************************)
(* Sequence analysis (iching_analyzer.rs)                                  *)
(***************************************************************************)

\* king_wen(): (1..=64).collect()
king_wen ==
    <<1, 2, 3, 4, 5, 6, 7, 8, 9, 10, 11, 12, 13, 14, 15, 16,
      17, 18, 19, 20, 21, 22, 23, 24, 25, 26, 27, 28, 29, 30, 31, 32,
      33, 34, 35, 36, 37, 38, 39, 40, 41, 42, 43, 44, 45, 46, 47, 48,
      49, 50, 51, 52, 53, 54, 55, 56, 57, 58, 59, 60, 61, 62, 63, 64>>

\* The sequence with the elements at i and j exchanged.
Swapped(sequence, i, j) ==
    [sequence EXCEPT ![i] = sequence[j], ![j] = sequence[i]]

\* The outcomes of random_sequence.shuffle(..) the model draws from.
Shuffles == {Swapped(king_wen, i, j) : i \in 1..MaxShuffle, j \in 1..MaxShuffle}

\* The numbers of the sequences given to SequenceAnalysis::new.
SeqNumbers == (0..MaxSeqNumber) \cup {64, 65}

\* The sequences given to SequenceAnalysis::new: the short ones, and King
\* Wen's sequence (main.rs lines 107-111).
Sequences == UNION {[1..n -> SeqNumbers] : n \in 0..MaxSeqLen} \cup {king_wen}

\* searcher.find_shortest_paths(false) in SequenceAnalysis::new (line 411):
\* how the call ends, and the paths it returns.
searcher_find_shortest_paths(self) ==
    LET ended(run) ==
            [status |-> run.status,
             paths  |-> IF run.status = "returned"
                        THEN find_shortest_paths_return(run.shortest_paths, FALSE)
                        ELSE <<>>]
    IN  ended(find_shortest_paths_loop(self))

\* The number of iterations of a loop `for i in 1..=sequence.len()`.
num_pairs_inclusive(sequence) == Len(sequence)

\* The number of iterations of `for i in 1..sequence.len()`.
num_pairs(sequence) == IF Len(sequence) = 0 THEN 0 ELSE Len(sequence) - 1

\* One iteration of the for loop of SequenceAnalysis::new (lines 409-413),
\* for the pair (sequence[n], sequence[n + 1]) of the model's 1-based
\* sequence: how far the loop got, the paths pushed, and the number of
\* searches run.  An index past the end of the sequence panics.
analysis_pair(sequence_, before, n) ==
    IF before.status # "running" THEN before
    ELSE IF n + 1 > Len(sequence_) THEN [before EXCEPT !.status = "panic"]
    ELSE LET push(found) ==
                IF found.status # "returned"
                THEN [before EXCEPT !.status = found.status, !.searches = @ + 1]
                ELSE [before EXCEPT !.shortest_paths = Append(@, found.paths),
                                    !.searches = @ + 1]
             search(searcher_) ==
                IF ~searcher_.ok
                THEN [before EXCEPT !.status = "error", !.error = searcher_.error]
                ELSE push(searcher_find_shortest_paths(searcher_))
         IN  search(HexagramSearcher_new(sequence_[n], sequence_[n + 1]))

\* The iterations lo..hi of that loop, in order.
RECURSIVE analysis_pairs(_, _, _, _)
analysis_pairs(sequence_, before, lo, hi) ==
    IF before.status # "running" \/ lo > hi THEN before
    ELSE IF lo = hi THEN analysis_pair(sequence_, before, lo)
    ELSE LET mid == (lo + hi) \div 2
         IN  analysis_pairs(sequence_, analysis_pairs(sequence_, before, lo, mid),
                            mid + 1, hi)

\* A u128 as eight 16-bit limbs, the least significant first.
U128(n) == <<n % 65536, (n \div 65536) % 65536, 0, 0, 0, 0, 0, 0>>

\* The u128 product of a u128 and a number below 2^14, wrapping.
RECURSIVE mul_limbs(_, _, _, _)
mul_limbs(limbs, k, i, carry) ==
    IF i > 8 THEN <<>>
    ELSE LET v == limbs[i] * k + carry
         IN  <<v % 65536>> \o mul_limbs(limbs, k, i + 1, v \div 65536)

\* The product kept in 32 bits: the two low limbs of the wrapping product.
u32_mul(limbs, k) ==
    LET low(product) == <<product[1], product[2], 0, 0, 0, 0, 0, 0>>
    IN  low(mul_limbs(limbs, k, 1, 0))

u128_mul(limbs, k) == mul_limbs(limbs, k, 1, 0)

\* .map(|paths| (paths[0].len() - 1) as u64).sum(), over the pairs lo..hi
RECURSIVE sum_ops(_, _, _)
sum_ops(shortest, lo, hi) ==
    IF lo > hi THEN 0
    ELSE IF lo = hi THEN Len(shortest[lo][1]) - 1
    ELSE sum_ops(shortest, lo, (lo + hi) \div 2)
            + sum_ops(shortest, (lo + hi) \div 2 + 1, hi)

\* .map(|paths| count_line_changes(&paths[0])).sum(), over the pairs lo..hi
RECURSIVE sum_line_changes(_, _, _)
sum_line_changes(shortest, lo, hi) ==
    IF lo > hi THEN 0
    ELSE IF lo = hi THEN count_line_changes(shortest[lo][1])
    ELSE sum_line_changes(shortest, lo, (lo + hi) \div 2)
            + sum_line_changes(shortest, (lo + hi) \div 2 + 1, hi)

\* .map(|paths| paths.len() as u128).product(), over the pairs lo..hi, from
\* the product so far.
RECURSIVE product_paths(_, _, _, _)
product_paths(shortest, product, lo, hi) ==
    IF product = U128(0) \/ lo > hi THEN product
    ELSE IF lo = hi THEN u128_mul(product, Len(shortest[lo]))
    ELSE product_paths(shortest,
                       product_paths(shortest, product, lo, (lo + hi) \div 2),
                       (lo + hi) \div 2 + 1, hi)

\* SequenceAnalysis::new: the Result (status "ok" with the SequenceAnalysis,
\* "error" with the error), or how the process ended instead; `searches`
\* counts the calls of find_shortest_paths it made.
SequenceAnalysis_new(sequence_) ==
    LET failed(loop, status_) ==
            [status |-> status_, error |-> loop.error, sequence |-> sequence_,
             shortest_paths |-> <<>>, total_ops |-> 0, total_line_changes |-> 0,
             total_paths |-> U128(0), searches |-> loop.searches]
        totals(loop, n) ==
            IF loop.status # "running" THEN failed(loop, loop.status)
            ELSE IF \E i \in 1..n : loop.shortest_paths[i] = <<>>
            THEN failed(loop, "panic")
            ELSE [status |-> "ok", error |-> <<>>, sequence |-> sequence_,
                  shortest_paths |-> loop.shortest_paths,
                  total_ops |-> sum_ops(loop.shortest_paths, 1, n),
                  total_line_changes |-> sum_line_changes(loop.shortest_paths, 1, n),
                  total_paths |-> product_paths(loop.shortest_paths, U128(1), 1, n),
                  searches |-> loop.searches]
        looped(loop) == totals(loop, Len(loop.shortest_paths))
    IN  looped(analysis_pairs(sequence_,
                              [status |-> "running", error |-> <<>>,
                               shortest_paths |-> <<>>, searches |-> 0],
                              1, num_pairs(sequence_)))

\* SequenceAnalysis::new(random_sequence) in a worker (line 446).
worker_analysis(random_sequence_) == SequenceAnalysis_new(random_sequence_)

\* .iter().last() in the place of min_by_key: the index of the last analysis.
last_analysis(analyses_, n) == n

\* .iter().min_by_key(|analysis| analysis.total_ops) over analyses[1..n]:
\* the index of the first analysis with the least key, 0 for None.
RECURSIVE min_by_key_total_ops(_, _)
min_by_key_total_ops(analyses_, n) ==
    IF n = 0 THEN 0
    ELSE LET m == min_by_key_total_ops(analyses_, n - 1)
         IN  IF m = 0 THEN n
             ELSE IF analyses_[n].total_ops < analyses_[m].total_ops THEN n
             ELSE m

\* The end of find_min_random_sequence (lines 448-452) on the collected
\* results, in the order of the workers' indexes.
find_min_collect(analyses_) ==
    LET n == Len(analyses_)
        m == min_by_key_total_ops(analyses_, n)
    IN  IF \E i \in 1..n : analyses_[i].status \notin {"ok", "error"}
        THEN [status |-> analyses_[CHOOSE i \in 1..n :
                            analyses_[i].status \notin {"ok", "error"}].status,
              index |-> 0]
        ELSE IF \E i \in 1..n : analyses_[i].status = "error"
        THEN [status |-> "error", index |-> 0]
        ELSE IF m = 0 THEN [status |-> "panic", index |-> 0]
        ELSE [status |-> "ok", index |-> m]

(***************************************************************************)
(* Readings (iching.rs)                                                    *)
(***************************************************************************)

\* a - b in u8: the wrapped difference, and whether the subtraction
\* overflowed (a panic in a build with overflow checks).
u8_sub(a, b) == [value |-> (a - b + 256) % 256, overflow |-> a < b]

\* coin_line: the sum of the three draws, in u8.
coin_line(throw1, throw2, throw3) == (throw1 + throw2 + throw3) % 256

\* pile_reminder without the case of a remainder of 0.
pile_reminder_modulo(pile_size) == pile_size % 4

\* pile_reminder
pile_reminder(pile_size) ==
    LET reminder == pile_size % 4
    IN  IF reminder = 0 THEN 4 ELSE reminder

\* yarrow_stalk_split that leaves the stalk set aside from the left pile
\* in the count of the stalks left.
yarrow_stalk_split_keeping_one(num_stalks_, right) ==
    LET left_all       == u8_sub(num_stalks_, right)
        left           == u8_sub(left_all.value, 1)
        right_reminder == pile_reminder(right)
        right_rest     == u8_sub(right, right_reminder)
        right_groups   == right_rest.value \div 4
        left_reminder  == pile_reminder(left.value)
        left_rest      == u8_sub(left.value, left_reminder)
        left_groups    == left_rest.value \div 4
        without_right  == u8_sub(num_stalks_, right_reminder)
        new_num_stalks == u8_sub(without_right.value, left_reminder)
    IN  [num_stalks |-> new_num_stalks.value,
         groups     |-> (left_groups + right_groups) % 256,
         overflow   |-> \/ left_all.overflow \/ left.overflow
                        \/ right_rest.overflow \/ left_rest.overflow
                        \/ without_right.overflow \/ new_num_stalks.overflow]

\* yarrow_stalk_split for a right pile of `right` stalks: the stalks left,
\* the groups of four counted, and whether a u8 subtraction overflowed.
yarrow_stalk_split(num_stalks_, right) ==
    LET left_all       == u8_sub(num_stalks_, right)
        left           == u8_sub(left_all.value, 1)
        right_reminder == pile_reminder(right)
        right_rest     == u8_sub(right, right_reminder)
        right_groups   == right_rest.value \div 4
        left_reminder  == pile_reminder(left.value)
        left_rest      == u8_sub(left.value, left_reminder)
        left_groups    == left_rest.value \div 4
        without_right  == u8_sub(num_stalks_, right_reminder)
        without_left   == u8_sub(without_right.value, left_reminder)
        new_num_stalks == u8_sub(without_left.value, 1)
    IN  [num_stalks |-> new_num_stalks.value,
         groups     |-> (left_groups + right_groups) % 256,
         overflow   |-> \/ left_all.overflow \/ left.overflow
                        \/ right_rest.overflow \/ left_rest.overflow
                        \/ without_right.overflow \/ without_left.overflow
                        \/ new_num_stalks.overflow]

\* No Result<Reading> yet.  A Reading is modelled without its question,
\* which generate_reading copies and never reads.
NoReading ==
    [status |-> "none", error |-> <<>>, present |-> None, future |-> None,
     changing_lines |-> {}]

\* The for loop of generate_reading (lines 653-676) from throws[i - 1] on:
\* the lines set so far, the indexes of the changing lines (from 0, as
\* enumerate() counts), and the throw the loop bailed at, if any.
RECURSIVE reading_lines(_, _, _)
reading_lines(throws, i, lines) ==
    IF i > Len(throws) \/ lines.bad_throw # <<>> THEN lines
    ELSE LET throw == throws[i]
             matched ==
                CASE throw = 6 ->
                        [lines EXCEPT !.present_lines[i] = "Open",
                                      !.future_lines[i] = "Closed",
                                      !.changing_lines = @ \cup {i - 1}]
                  [] throw = 7 ->
                        [lines EXCEPT !.present_lines[i] = "Closed",
                                      !.future_lines[i] = "Closed"]
                  [] throw = 8 ->
                        [lines EXCEPT !.present_lines[i] = "Open",
                                      !.future_lines[i] = "Open"]
                  [] throw = 9 ->
                        [lines EXCEPT !.present_lines[i] = "Closed",
                                      !.future_lines[i] = "Open",
                                      !.changing_lines = @ \cup {i - 1}]
                  [] OTHER -> [lines EXCEPT !.bad_throw = <<throw>>]
         IN  reading_lines(throws, i + 1, matched)

\* generate_reading from its throws on, returning Some(future_hex) whether
\* or not a line changes.
generate_reading_some_future(throws) ==
    LET built(lines, present_hex, future_hex) ==
            IF lines.bad_throw # <<>>
            THEN [NoReading EXCEPT !.status = "error",
                                   !.error = <<"bad throw", lines.bad_throw[1]>>]
            ELSE IF present_hex = None
            THEN [NoReading EXCEPT !.status = "error",
                     !.error = <<"cannot find hexagram for present lines",
                                 lines.present_lines>>]
            ELSE IF future_hex = None
            THEN [NoReading EXCEPT !.status = "error",
                     !.error = <<"cannot find hexagram for future lines",
                                 lines.future_lines>>]
            ELSE [status |-> "ok", error |-> <<>>, present |-> present_hex,
                  future |-> future_hex,
                  changing_lines |-> lines.changing_lines]
        looked_up(lines) ==
            built(lines, HexagramIndexGet(lines.present_lines),
                  HexagramIndexGet(lines.future_lines))
    IN  looked_up(reading_lines(throws, 1,
                      [present_lines |-> [i \in 1..6 |-> "Open"],
                       future_lines |-> [i \in 1..6 |-> "Open"],
                       changing_lines |-> {}, bad_throw |-> <<>>]))

\* generate_reading from its throws on (lines 649-700): the lines of the
\* throws, the two lookups in HEXAGRAM_INDEX, and the Reading.
generate_reading(throws) ==
    LET built(lines, present_hex, future_hex) ==
            IF lines.bad_throw # <<>>
            THEN [NoReading EXCEPT !.status = "error",
                                   !.error = <<"bad throw", lines.bad_throw[1]>>]
            ELSE IF present_hex = None
            THEN [NoReading EXCEPT !.status = "error",
                     !.error = <<"cannot find hexagram for present lines",
                                 lines.present_lines>>]
            ELSE IF future_hex = None
            THEN [NoReading EXCEPT !.status = "error",
                     !.error = <<"cannot find hexagram for future lines",
                                 lines.future_lines>>]
            ELSE IF lines.present_lines = lines.future_lines
            THEN [status |-> "ok", error |-> <<>>, present |-> present_hex,
                  future |-> None,
                  changing_lines |-> lines.changing_lines]
            ELSE [status |-> "ok", error |-> <<>>, present |-> present_hex,
                  future |-> future_hex,
                  changing_lines |-> lines.changing_lines]
        looked_up(lines) ==
            built(lines, HexagramIndexGet(lines.present_lines),
                  HexagramIndexGet(lines.future_lines))
    IN  looked_up(reading_lines(throws, 1,
                      [present_lines |-> [i \in 1..6 |-> "Open"],
                       future_lines |-> [i \in 1..6 |-> "Open"],
                       changing_lines |-> {}, bad_throw |-> <<>>]))

(***************************************************************************)
(* State                                                                   *)
(***************************************************************************)

VARIABLES
    pc,              \* where the program is, or how it ended
    start,           \* the arguments of HexagramSearcher::new
    end,
    searcher,        \* the Result of HexagramSearcher::new
    all,             \* the argument of find_shortest_paths
    shortest_paths,  \* the local shortest_paths of find_shortest_paths
    result,          \* the Vec<Path> find_shortest_paths returned
    sequence,        \* the argument of SequenceAnalysis::new
    analysis,        \* what SequenceAnalysis::new returned
    num_sequences,   \* the argument of find_min_random_sequence
    worker_pc,       \* where each parallel worker is
    random_sequence, \* each worker's shuffled sequence
    analyses,        \* each worker's SequenceAnalysis
    finished,        \* the workers in the order they finished
    min_sequence,    \* what find_min_random_sequence returned
    hexagram,        \* a Hexagram value (self of the transforms)
    previous,        \* the hexagram the last operation was applied to
    operation,       \* the last SearchOperation applied
    index_entry,     \* HEXAGRAM_INDEX.get(&hexagram.lines)
    hexagram_trigrams, \* hexagram.trigrams()
    queue,           \* the local queue of find_shortest_paths
    path,            \* the local path of find_shortest_paths: the last pop
    method,          \* the ReadingMethod of generate_reading
    randomness,      \* its RandomnessMode
    reading,         \* the throws collected by coin_reading / yarrow_stalk_reading
    num_stalks,      \* the local num_stalks of yarrow_stalk_line
    split,           \* how many splits of the current line are done
    generated        \* the Result<Reading> of generate_reading

search_vars == <<start, end, searcher, all, shortest_paths, result>>

sequence_vars == <<sequence, analysis>>

min_vars == <<num_sequences, worker_pc, random_sequence, analyses, finished,
              min_sequence>>

hexagram_vars == <<hexagram, previous, operation, index_entry, hexagram_trigrams>>

loop_vars == <<queue, path>>

reading_vars == <<method, randomness, reading, num_stalks, split, generated>>

vars == <<pc, search_vars, sequence_vars, min_vars, hexagram_vars, loop_vars,
          reading_vars>>

\* The numbers given to HexagramSearcher::new.
Numbers == 0..MaxNumber

\* A SequenceAnalysis that has not been computed.
NoAnalysis ==
    [status |-> "none", error |-> <<>>, sequence |-> <<>>, shortest_paths |-> <<>>,
     total_ops |-> 0, total_line_changes |-> 0, total_paths |-> U128(0),
     searches |-> 0]

Init ==
    /\ pc = "start"
    /\ start = 0
    /\ end = 0
    /\ searcher = [ok |-> FALSE, error |-> <<>>, reads |-> <<>>]
    /\ all = FALSE
    /\ shortest_paths = <<>>
    /\ result = <<>>
    /\ sequence = <<>>
    /\ analysis = NoAnalysis
    /\ num_sequences = 0
    /\ worker_pc = <<>>
    /\ random_sequence = <<>>
    /\ analyses = <<>>
    /\ finished = <<>>
    /\ min_sequence = NoAnalysis
    /\ hexagram = None
    /\ previous = None
    /\ operation = NoOp
    /\ index_entry = None
    /\ hexagram_trigrams = <<>>
    /\ queue = <<>>
    /\ path = <<>>
    /\ method = "none"
    /\ randomness = "none"
    /\ reading = <<>>
    /\ num_stalks = 0
    /\ split = 0
    /\ generated = NoReading

\* main.rs ShortestDistance: HexagramSearcher::new(start, end)?
NewSearcher(s, e) ==
    /\ pc = "start"
    /\ start' = s
    /\ end' = e
    /\ searcher' = HexagramSearcher_new(s, e)
    /\ pc' = IF searcher'.ok THEN "searcher" ELSE "error"
    /\ UNCHANGED <<all, shortest_paths, result, sequence_vars, min_vars>>
    /\ UNCHANGED <<hexagram_vars, loop_vars, reading_vars>>

\* searcher.find_shortest_paths(all): the whole call.  It returns, or the
\* process ends for want of memory.
FindShortestPaths ==
    /\ pc = "searcher"
    /\ \E run \in {find_shortest_paths_loop(searcher)} : \E a \in BOOLEAN :
          /\ all' = a
          /\ pc' = run.status
          /\ shortest_paths' = run.shortest_paths
          /\ result' = IF run.status = "returned"
                       THEN find_shortest_paths_return(run.shortest_paths, a)
                       ELSE <<>>
    /\ UNCHANGED <<start, end, searcher, sequence_vars, min_vars>>
    /\ UNCHANGED <<hexagram_vars, loop_vars, reading_vars>>

\* SequenceAnalysis::new(sequence): the whole call.
NewSequenceAnalysis(sequence_) ==
    /\ pc = "start"
    /\ sequence' = sequence_
    /\ analysis' = SequenceAnalysis_new(sequence_)
    /\ pc' = IF analysis'.status = "ok" THEN "analysed" ELSE analysis'.status
    /\ UNCHANGED <<search_vars, min_vars>>
    /\ UNCHANGED <<hexagram_vars, loop_vars, reading_vars>>

\* find_min_random_sequence(num_sequences): (0..num_sequences).into_par_iter()
FindMinRandomSequence(n) ==
    /\ pc = "start"
    /\ num_sequences' = n
    /\ worker_pc' = [w \in 1..n |-> "spawned"]
    /\ random_sequence' = [w \in 1..n |-> <<>>]
    /\ analyses' = [w \in 1..n |-> NoAnalysis]
    /\ pc' = "par_iter"
    /\ UNCHANGED <<search_vars, sequence_vars, finished, min_sequence>>
    /\ UNCHANGED <<hexagram_vars, loop_vars, reading_vars>>

\* A worker's closure, lines 444-445: king_wen() and its shuffle.
Shuffle(w, shuffled) ==
    /\ pc = "par_iter"
    /\ worker_pc[w] = "spawned"
    /\ random_sequence' = [random_sequence EXCEPT ![w] = shuffled]
    /\ worker_pc' = [worker_pc EXCEPT ![w] = "shuffled"]
    /\ UNCHANGED <<pc, search_vars, sequence_vars, num_sequences, analyses,
                   finished, min_sequence>>
    /\ UNCHANGED <<hexagram_vars, loop_vars, reading_vars>>

\* A worker's closure, line 446: SequenceAnalysis::new(random_sequence)
Analyse(w) ==
    /\ pc = "par_iter"
    /\ worker_pc[w] = "shuffled"
    /\ analyses' = [analyses EXCEPT ![w] = worker_analysis(random_sequence[w])]
    /\ worker_pc' = [worker_pc EXCEPT ![w] = "done"]
    /\ finished' = Append(finished, w)
    /\ UNCHANGED <<pc, search_vars, sequence_vars, num_sequences,
                   random_sequence, min_sequence>>
    /\ UNCHANGED <<hexagram_vars, loop_vars, reading_vars>>

\* Lines 448-452, once every worker is done: collect, min_by_key, unwrap,
\* clone.
CollectMin ==
    /\ pc = "par_iter"
    /\ \A w \in 1..num_sequences : worker_pc[w] = "done"
    /\ LET r == find_min_collect(analyses)
       IN  /\ pc' = IF r.status = "ok" THEN "min_returned" ELSE r.status
           /\ min_sequence' = IF r.status = "ok" THEN analyses[r.index]
                              ELSE NoAnalysis
    /\ UNCHANGED <<search_vars, sequence_vars, num_sequences, worker_pc,
                   random_sequence, analyses, finished>>
    /\ UNCHANGED <<hexagram_vars, loop_vars, reading_vars>>

\* HexagramAnalysis::new, lines 133-140: the hexagram of a catalogue number
\* is created from its table entry and its trigrams are taken; index_entry
\* is what a lookup of its lines in HEXAGRAM_INDEX gives (generate_reading).
CreateHexagram(number) ==
    /\ pc = "start"
    /\ valid_number(number)
    /\ LET created(h) ==
               /\ hexagram' = h
               /\ index_entry' = HexagramIndexGet(h.lines)
               /\ hexagram_trigrams' = trigrams(h)
       IN  created(create_hexagram(HEXAGRAMS[number][1], HEXAGRAMS[number][2]))
    /\ pc' = "hexagram"
    /\ UNCHANGED <<previous, operation>>
    /\ UNCHANGED <<search_vars, sequence_vars, min_vars, loop_vars, reading_vars>>

\* SearchOperation::apply on the current hexagram (HexagramAnalysis::new
\* line 144, find_shortest_paths line 311), followed by the lookups made
\* on the result.  A failed unwrap() ends the process.
Apply(op) ==
    /\ pc = "hexagram"
    /\ LET applied(h) ==
               /\ hexagram' = h
               /\ index_entry' = IF h = None THEN None ELSE HexagramIndexGet(h.lines)
               /\ hexagram_trigrams' = IF h = None THEN <<>> ELSE trigrams(h)
               /\ pc' = IF h = None THEN "panic" ELSE "hexagram"
       IN  applied(apply(op, hexagram))
    /\ previous' = hexagram
    /\ operation' = op
    /\ UNCHANGED <<search_vars, sequence_vars, min_vars, loop_vars, reading_vars>>

\* generate_reading, lines 643-646: the reading of the chosen method is
\* started with the chosen randomness; yarrow_stalk_line starts with 49
\* stalks.
StartReading(method_, randomness_) ==
    /\ pc = "start"
    /\ method' = method_
    /\ randomness' = randomness_
    /\ reading' = <<>>
    /\ num_stalks' = IF method_ = "YarrowStalks" THEN 49 ELSE 0
    /\ split' = 0
    /\ pc' = IF method_ = "Coin" THEN "coin_reading" ELSE "yarrow_stalk_reading"
    /\ UNCHANGED generated
    /\ UNCHANGED <<search_vars, sequence_vars, min_vars, hexagram_vars, loop_vars>>

\* coin_line for one element of coin_reading: three draws, each 2 or 3
\* (gen_range(2..4), or random.org asked for min=2, max=3).
CoinLine(throw1, throw2, throw3) ==
    /\ pc = "coin_reading"
    /\ reading' = Append(reading, coin_line(throw1, throw2, throw3))
    /\ pc' = IF Len(reading) = 5 THEN "thrown" ELSE "coin_reading"
    /\ UNCHANGED <<method, randomness, num_stalks, split, generated>>
    /\ UNCHANGED <<search_vars, sequence_vars, min_vars, hexagram_vars, loop_vars>>

\* yarrow_stalk_split inside yarrow_stalk_line, for a right pile drawn
\* from 1..=num_stalks-2: the first two splits of a line hand on the
\* stalks left, the third gives the line and the next line starts with 49
\* stalks again.  An overflowing u8 subtraction panics or wraps, as the
\* build decides.
YarrowStalkSplit(right) ==
    /\ pc = "yarrow_stalk_reading"
    /\ right \in 1..(num_stalks - 2)
    /\ LET done(r) ==
               \/ /\ r.overflow
                  /\ pc' = "panic"
                  /\ UNCHANGED <<reading, num_stalks, split>>
               \/ /\ split < 2
                  /\ num_stalks' = r.num_stalks
                  /\ split' = split + 1
                  /\ UNCHANGED <<pc, reading>>
               \/ /\ split = 2
                  /\ reading' = Append(reading, r.groups)
                  /\ num_stalks' = 49
                  /\ split' = 0
                  /\ pc' = IF Len(reading) = 5 THEN "thrown"
                           ELSE "yarrow_stalk_reading"
       IN  done(yarrow_stalk_split(num_stalks, right))
    /\ UNCHANGED <<method, randomness, generated>>
    /\ UNCHANGED <<search_vars, sequence_vars, min_vars, hexagram_vars, loop_vars>>

\* A request to random.org fails, or its answer does not parse: the `?`
\* of coin_line or yarrow_stalk_split returns the error and no reading
\* is generated.
DrawFails ==
    /\ pc \in {"coin_reading", "yarrow_stalk_reading"}
    /\ randomness = "Random"
    /\ pc' = "error"
    /\ UNCHANGED reading_vars
    /\ UNCHANGED <<search_vars, sequence_vars, min_vars, hexagram_vars, loop_vars>>

\* coin_reading with RandomnessMode::Random, returning its six throws.
\* Each draw is whatever u8 the answer of random.org parses to (lines
\* 521-522); the code does not compare it with the range it asked for, so
\* a throw is any u8.  The throws are drawn from ThrowValues.
RandomCoinReading ==
    /\ pc = "start"
    /\ method' = "Coin"
    /\ randomness' = "Random"
    /\ \E throws_ \in [1..6 -> ThrowValues] : reading' = throws_
    /\ pc' = "thrown"
    /\ UNCHANGED <<num_stalks, split, generated>>
    /\ UNCHANGED <<search_vars, sequence_vars, min_vars, hexagram_vars, loop_vars>>

\* generate_reading, lines 649-700, once the throws are there: the Reading
\* is returned, or the error.
GenerateReading ==
    /\ pc = "thrown"
    /\ generated' = generate_reading(reading)
    /\ pc' = IF generated'.status = "ok" THEN "generated" ELSE "error"
    /\ UNCHANGED <<method, randomness, reading, num_stalks, split>>
    /\ UNCHANGED <<search_vars, sequence_vars, min_vars, hexagram_vars, loop_vars>>

\* find_shortest_paths, lines 293-299: the queue holds the path of the
\* start hexagram alone and nothing is recorded.
StartLoop ==
    /\ pc = "searcher"
    /\ queue' = << <<(<<searcher.start_hexagram, NoOp>>)>> >>
    /\ shortest_paths' = <<>>
    /\ path' = <<>>
    /\ pc' = "loop"
    /\ UNCHANGED <<start, end, searcher, all, result>>
    /\ UNCHANGED <<sequence_vars, min_vars, hexagram_vars, reading_vars>>

\* One iteration of the while loop, lines 300-328: the test of the queue,
\* the pop, the break, and the for loop over the operations.
LoopStep ==
    /\ pc = "loop"
    /\ LET stepped(st) ==
               /\ queue' = st.queue
               /\ shortest_paths' = st.shortest_paths
               /\ pc' = CASE st.status = "running"  -> "loop"
                          [] st.status = "returned" -> "loop_ended"
                          [] OTHER                  -> st.status
       IN  stepped(search_step([status |-> "running", queue |-> queue,
                                shortest_paths |-> shortest_paths],
                               searcher.end_hexagram))
    /\ path' = IF queue = <<>> THEN path ELSE Head(queue)
    /\ UNCHANGED <<start, end, searcher, all, result>>
    /\ UNCHANGED <<sequence_vars, min_vars, hexagram_vars, reading_vars>>

\* The return of find_shortest_paths, lines 332-336.
LoopReturn(a) ==
    /\ pc = "loop_ended"
    /\ all' = a
    /\ result' = find_shortest_paths_return(shortest_paths, a)
    /\ pc' = "returned"
    /\ UNCHANGED <<start, end, searcher, shortest_paths, loop_vars>>
    /\ UNCHANGED <<sequence_vars, min_vars, hexagram_vars, reading_vars>>

NextSearch ==
    \/ \E s \in Numbers, e \in Numbers : NewSearcher(s, e)
    \/ FindShortestPaths

NextSequence ==
    \E sequence_ \in Sequences : NewSequenceAnalysis(sequence_)

NextMinRandom ==
    \/ \E n \in 0..MaxSequences : FindMinRandomSequence(n)
    \/ \E w \in 1..num_sequences, shuffled \in Shuffles : Shuffle(w, shuffled)
    \/ \E w \in 1..num_sequences : Analyse(w)
    \/ CollectMin

NextHexagram ==
    \/ \E number \in Numbers : CreateHexagram(number)
    \/ \E i \in 0..Len(all_operations) :
          Apply(IF i = 0 THEN NoOp ELSE all_operations[i])

NextReading ==
    \/ \E method_ \in {"YarrowStalks", "Coin"} :
          \E randomness_ \in {"Random", "Pseudorandom"} :
             StartReading(method_, randomness_)
    \/ \E throw1, throw2, throw3 \in 2..3 : CoinLine(throw1, throw2, throw3)
    \/ \E right \in 1..47 : YarrowStalkSplit(right)
    \/ DrawFails
    \/ GenerateReading

NextGenerate ==
    \/ RandomCoinReading
    \/ GenerateReading

NextSearchLoop ==
    \/ \E s \in 1..MaxLoopNumber, e \in 1..MaxLoopNumber : NewSearcher(s, e)
    \/ StartLoop
    \/ LoopStep
    \/ \E a \in BOOLEAN : LoopReturn(a)

Next ==
    \/ NextSearchLoop \/ NextSearch \/ NextSequence \/ NextMinRandom
    \/ NextHexagram \/ NextReading \/ NextGenerate

\* The point search of main.rs.
SpecSearch == Init /\ [][NextSearch]_vars

\* The analysis of a sequence.
SpecSequence == Init /\ [][NextSequence]_vars

\* The best of several random sequences.
SpecMinRandom == Init /\ [][NextMinRandom]_vars

\* Every entry point.
\* The transforms of one hexagram, applied one after the other.
SpecHexagram == Init /\ [][NextHexagram]_vars

\* The throws of a reading, line by line and split by split.
SpecReading == Init /\ [][NextReading]_vars

\* A search followed iteration by iteration of its loop.
SpecSearchLoop == Init /\ [][NextSearchLoop]_vars

\* The Reading generated from six throws, whatever random.org answered.
SpecGenerate == Init /\ [][NextGenerate]_vars

Spec == Init /\ [][Next]_vars

(***************************************************************************)
(* The transformation graph, for stating the properties of the search      *)
(***************************************************************************)

\* The hexagrams one edge away from a hexagram of S: the edges are the
\* operations of all_operations (NoOp is not among them).
Successors(S) ==
    {apply(all_operations[i], h) : i \in 1..Len(all_operations), h \in S}

\* The least number of edges from a hexagram of `reached` to `goal`, counted
\* from k; -1 when there is none.
RECURSIVE DistanceFrom(_, _, _)
DistanceFrom(reached, goal, k) ==
    IF goal \in reached THEN k
    ELSE LET next == reached \cup Successors(reached)
         IN  IF next = reached THEN -1 ELSE DistanceFrom(next, goal, k + 1)

Distance(from, goal) == DistanceFrom({from}, goal, 0)

\* The path that starts at `from` and follows the operations ops.
RECURSIVE PathAlong(_, _)
PathAlong(from, ops) ==
    IF ops = <<>> THEN << <<from, NoOp>> >>
    ELSE LET before == PathAlong(from, SubSeq(ops, 1, Len(ops) - 1))
             op     == ops[Len(ops)]
         IN  Append(before, <<apply(op, before[Len(before)][1]), op>>)

\* Every path of exactly k edges from `from` to `goal`, as the search
\* labels it.
PathsOfLength(from, goal, k) ==
    LET Ops == {all_operations[i] : i \in 1..Len(all_operations)}
        walks == {PathAlong(from, ops) : ops \in [1..k -> Ops]}
    IN  {p \in walks : p[Len(p)][1] = goal}

\* The number of lines in which two hexagrams differ.
Hamming(a, b) == Cardinality({i \in 1..6 : a.lines[i] # b.lines[i]})

\* The sum of the Hamming distances between the consecutive hexagrams of a path.
RECURSIVE TotalLineChanges(_)
TotalLineChanges(p) ==
    IF Len(p) < 2 THEN 0
    ELSE Hamming(p[1][1], p[2][1]) + TotalLineChanges(Tail(p))

\* The elements of a sequence.
Range(seq) == {seq[i] : i \in 1..Len(seq)}

\* The hexagram of catalogue entry n read off the table, without
\* create_hexagram: its number and its lines.
Entry(n) ==
    [number |-> HEXAGRAMS[n][1],
     lines  |-> [i \in 1..6 |-> IF HEXAGRAMS[n][2][i] = 0 THEN "Open" ELSE "Closed"]]

\* The least total line-change count among the paths of a set.
LeastLineChanges(paths) ==
    CHOOSE c \in {TotalLineChanges(p) : p \in paths} :
        \A p \in paths : c <= TotalLineChanges(p)

\* The shortest distance between catalogue entries a and b.
PairDistance(a, b) == Distance(Entry(a), Entry(b))

\* The least total line-change count of a shortest path from entry a to b.
PairLineChanges(a, b) ==
    LeastLineChanges(PathsOfLength(Entry(a), Entry(b), PairDistance(a, b)))

\* The sum of the shortest distances of the consecutive pairs of a sequence.
RECURSIVE SumOfDistances(_)
SumOfDistances(seq) ==
    IF Len(seq) < 2 THEN 0
    ELSE PairDistance(seq[1], seq[2]) + SumOfDistances(Tail(seq))

\* The sum of the least line-change counts of the consecutive pairs.
RECURSIVE SumOfLineChanges(_)
SumOfLineChanges(seq) ==
    IF Len(seq) < 2 THEN 0
    ELSE PairLineChanges(seq[1], seq[2]) + SumOfLineChanges(Tail(seq))

\* The call of find_shortest_paths has ended: it returned, or the process
\* ended for want of memory.
SearchEnded == pc \in {"returned", "out_of_memory"}

\* The call of SequenceAnalysis::new has ended, in whatever way.
AnalysisEnded == pc \in {"analysed", "error", "out_of_memory", "panic"} /\ analysis.status # "none"

\* The call of find_min_random_sequence has ended, in whatever way.
MinEnded == pc \in {"min_returned", "error", "out_of_memory", "panic"} /\ finished # <<>>

(***************************************************************************)
(* Properties                                                              *)
(***************************************************************************)

\* C1: for every pair (start, end) of 1..64, start = end included, and both
\* values of `all`, find_shortest_paths returns a non-empty list of paths,
\* each starting with (start hexagram, NoOp) and ending at the end hexagram.
C1_NonEmptyResult ==
    SearchEnded =>
        /\ pc = "returned"
        /\ result # <<>>
        /\ \A i \in 1..Len(result) :
              /\ result[i][1] = <<Entry(start), NoOp>>
              /\ result[i][Len(result[i])][1] = Entry(end)

\* C2: when start = end, find_shortest_paths returns exactly one path, the
\* one-element path [(start hexagram, NoOp)], for both values of `all`.
C2_TrivialPath ==
    (SearchEnded /\ start = end) =>
        /\ pc = "returned"
        /\ result = << << <<Entry(start), NoOp>> >> >>

\* C3: for start # end, find_shortest_paths(true) returns, and returns
\* exactly the paths of the least number of edges from start to end in the
\* graph of all_operations: every returned path has that many edges, every
\* labelled path of that length from start to end is returned, and none is
\* returned twice.
C3_AllShortestPaths ==
    (SearchEnded /\ start # end /\ all) =>
        LET distance == PairDistance(start, end)
        IN  /\ pc = "returned"
            /\ distance >= 1
            /\ \A i \in 1..Len(result) : Len(result[i]) - 1 = distance
            /\ Range(result) = PathsOfLength(Entry(start), Entry(end), distance)
            /\ Cardinality(Range(result)) = Len(result)

\* C3, reached: a search with all = true has returned several paths of
\* three edges each.
C3_Witness ==
    /\ pc = "returned" /\ all /\ start # end
    /\ Len(result) > 1
    /\ Len(result[1]) = 4

\* C4: the paths find_shortest_paths(false) returns are paths of the
\* all = true result, all with the same number of edges and the same total
\* line-change count; that count is the least over the all = true result,
\* and every path of the all = true result that is not returned has a
\* strictly greater count.
C4_LeastLinesChanged ==
    (pc = "returned" /\ ~all) =>
        LET raw == find_shortest_paths_return(shortest_paths, TRUE)
        IN  /\ result # <<>>
            /\ Range(result) \subseteq Range(raw)
            /\ \A i, j \in 1..Len(result) :
                  /\ Len(result[i]) = Len(result[j])
                  /\ TotalLineChanges(result[i]) = TotalLineChanges(result[j])
            /\ TotalLineChanges(result[1]) = LeastLineChanges(Range(raw))
            /\ \A j \in 1..Len(raw) :
                  raw[j] \notin Range(result)
                     => TotalLineChanges(raw[j]) > TotalLineChanges(result[1])

\* C4, reached: a search with all = false has returned several paths and
\* left out others of the same length.
C4_Witness ==
    /\ pc = "returned" /\ ~all
    /\ Len(result) > 1
    /\ Len(result) < Len(shortest_paths)

\* C5: HexagramSearcher::new returns the validation error exactly when start
\* or end is outside 1..64; the error comes before any read of the
\* catalogue and no search follows it; on success the two hexagrams carry
\* the number and the lines of catalogue entries start and end.
C5_Validation ==
    pc # "start" =>
        /\ ~searcher.ok <=> (start \notin 1..64 \/ end \notin 1..64)
        /\ ~searcher.ok =>
              /\ pc = "error"
              /\ searcher.reads = <<>>
              /\ shortest_paths = <<>> /\ result = <<>>
        /\ searcher.ok =>
              /\ searcher.start_hexagram = Entry(start)
              /\ searcher.start_hexagram.number = start
              /\ searcher.end_hexagram = Entry(end)
              /\ searcher.end_hexagram.number = end

\* C5, reached: the constructor has refused an end number above 64 for a
\* start number that is in range.
C5_Witness ==
    /\ pc = "error"
    /\ start = 64 /\ end = 65
    /\ searcher.error = <<"Invalid end hexagram number", 65>>

\* C6: SequenceAnalysis::new of a sequence with an element outside 1..64
\* returns the validation error, before any pair search has run, wherever
\* the element is and whatever the length of the sequence, length 1 included.
C6_ValidationFirst ==
    (AnalysisEnded /\ \E i \in 1..Len(sequence) : sequence[i] \notin 1..64) =>
        /\ analysis.status = "error"
        /\ analysis.searches = 0

\* C7: from hexagram 1 (all lines Closed) to hexagram 2 (all lines Open),
\* find_shortest_paths(false) returns exactly the path
\* [(hexagram 1, NoOp), (hexagram 2, InverseHexagram)], of 6 line changes,
\* and no other operation of all_operations maps hexagram 1 to hexagram 2.
C7_OneToTwo ==
    (SearchEnded /\ start = 1 /\ end = 2 /\ ~all) =>
        /\ pc = "returned"
        /\ \A i \in 1..6 : Entry(1).lines[i] = "Closed" /\ Entry(2).lines[i] = "Open"
        /\ result = << << <<Entry(1), NoOp>>, <<Entry(2), <<"InverseHexagram">> >> >> >>
        /\ count_line_changes(result[1]) = 6
        /\ TotalLineChanges(result[1]) = 6
        /\ \A i \in 1..Len(all_operations) :
              apply(all_operations[i], Entry(1)) = Entry(2)
                 => all_operations[i] = <<"InverseHexagram">>

\* C7, reached: the search from 1 to 2 with all = false has returned one path.
C7_Witness ==
    /\ pc = "returned" /\ ~all
    /\ start = 1 /\ end = 2
    /\ Len(result) = 1

\* C8: for every sequence of numbers of 1..64, SequenceAnalysis::new gives
\* total_ops the sum over the consecutive pairs of the pair's shortest
\* distance and total_line_changes the sum of the pair's least line-change
\* count; for [1, 2, 1] they are 2 and 12.
C8_Totals ==
    (AnalysisEnded /\ \A i \in 1..Len(sequence) : sequence[i] \in 1..64) =>
        /\ analysis.status = "ok"
        /\ analysis.total_ops = SumOfDistances(sequence)
        /\ analysis.total_line_changes = SumOfLineChanges(sequence)
        /\ sequence = <<1, 2, 1>> =>
              analysis.total_ops = 2 /\ analysis.total_line_changes = 12

\* C8 for the sequences in which no two consecutive elements are equal.
C8_TotalsOfDistinctNeighbours ==
    (/\ AnalysisEnded
     /\ \A i \in 1..Len(sequence) : sequence[i] \in 1..64
     /\ \A i \in 1..(Len(sequence) - 1) : sequence[i] # sequence[i + 1]) =>
        /\ analysis.status = "ok"
        /\ analysis.total_ops = SumOfDistances(sequence)
        /\ analysis.total_line_changes = SumOfLineChanges(sequence)
        /\ sequence = <<1, 2, 1>> =>
              analysis.total_ops = 2 /\ analysis.total_line_changes = 12

\* C9: SequenceAnalysis::new of a one-element sequence [h], h in 1..64,
\* succeeds with total_ops 0, total_line_changes 0 and an empty
\* shortest_paths, and runs no search.
C9_SingleElement ==
    (AnalysisEnded /\ Len(sequence) = 1 /\ sequence[1] \in 1..64) =>
        /\ pc = "analysed"
        /\ analysis.status = "ok"
        /\ analysis.sequence = sequence
        /\ analysis.total_ops = 0
        /\ analysis.total_line_changes = 0
        /\ analysis.shortest_paths = <<>>
        /\ analysis.searches = 0

\* C9, reached: the analysis of [5] has succeeded.
C9_Witness ==
    /\ pc = "analysed"
    /\ sequence = <<5>>
    /\ analysis.status = "ok"

\* C10: for N >= 1, whatever the shuffles and the order in which the
\* workers finish, find_min_random_sequence(N) returns the analysis of one
\* of the N shuffled sequences, its total_ops is at most that of each of
\* the N analyses, and it is the least total_ops of the analyses of the
\* shuffled sequences, which the finishing order has no part in.
C10_Minimum ==
    (MinEnded /\ num_sequences >= 1) =>
        /\ pc = "min_returned"
        /\ \E w \in 1..num_sequences :
              /\ min_sequence = analyses[w]
              /\ min_sequence.sequence = random_sequence[w]
        /\ \A w \in 1..num_sequences :
              /\ min_sequence.total_ops <= analyses[w].total_ops
              /\ min_sequence.total_ops
                    <= SequenceAnalysis_new(random_sequence[w]).total_ops
        /\ \E w \in 1..num_sequences :
              min_sequence.total_ops
                 = SequenceAnalysis_new(random_sequence[w]).total_ops

\* C10, reached: of two workers the second finished first, and the first
\* worker's sequence has the smaller total_ops and is the one returned.
C10_Witness ==
    /\ pc = "min_returned"
    /\ num_sequences = 2
    /\ finished = <<2, 1>>
    /\ analyses[1].total_ops < analyses[2].total_ops
    /\ min_sequence = analyses[1]

\* The hexagram was created from its table entry and nothing was applied.
JustCreated == pc = "hexagram" /\ previous = None

\* C11: the static tables are bijections.  HEXAGRAMS has 64 entries
\* numbered 1..64 in order whose created line patterns are pairwise
\* distinct and are all 64 combinations of six lines; TRIGRAMS has 8
\* entries whose patterns are all 8 combinations of three lines; looking
\* up the lines of an entry in HEXAGRAM_INDEX or TRIGRAM_INDEX gives the
\* entity with that entry's number; and building an index overwrites no
\* entry: each index has as many keys as its table has entries.
C11_TablesAreBijections ==
    /\ pc = "hexagram" => index_entry = hexagram
    /\ JustCreated =>
          /\ Len(HEXAGRAMS) = 64
          /\ \A h \in 1..64 : HEXAGRAMS[h][1] = h
          /\ \A h, g \in 1..64 :
                h # g => create_hexagram(h, HEXAGRAMS[h][2]).lines
                            # create_hexagram(g, HEXAGRAMS[g][2]).lines
          /\ {create_hexagram(h, HEXAGRAMS[h][2]).lines : h \in 1..64}
                = [1..6 -> Line]
          /\ Len(TRIGRAMS) = 8
          /\ {create_trigram(TRIGRAMS[t][1], TRIGRAMS[t][2]).lines : t \in 1..8}
                = [1..3 -> Line]
          /\ \E h \in 1..64 :
                /\ hexagram.lines = Entry(h).lines
                /\ hexagram.number = h
                /\ index_entry.number = h
          /\ \A t \in 1..8 :
                TrigramIndexGet(create_trigram(TRIGRAMS[t][1], TRIGRAMS[t][2]).lines).number
                   = TRIGRAMS[t][1]
          /\ Cardinality(DOMAIN HEXAGRAM_INDEX) = Len(HEXAGRAMS)
          /\ Cardinality(DOMAIN TRIGRAM_INDEX) = Len(TRIGRAMS)

\* C11, reached: the last entry of the table was created and the lookup
\* of its lines gave hexagram 64.
C11_Witness ==
    /\ JustCreated
    /\ hexagram.number = 64
    /\ index_entry.number = 64

\* An operation has just been applied to a hexagram and returned one.
Applied == pc = "hexagram" /\ previous # None

\* The operations C12 lists: the six InverseLine operations, the two
\* trigram inversions, the two trigram reversals, MirrorTrigrams,
\* InverseHexagram and ReverseHexagram.
Involutions ==
    {op \in Range(all_operations) :
        op[1] \in {"InverseLine", "InverseBottomTrigram", "InverseTopTrigram",
                   "ReverseBottomTrigram", "ReverseTopTrigram", "MirrorTrigrams",
                   "InverseHexagram", "ReverseHexagram"}}

\* C12: each of the thirteen listed operations is an involution: applied
\* to the hexagram it has just produced, it gives back the hexagram it
\* was applied to, apply(op, apply(op, H)) = H.
C12_Involutions ==
    (Applied /\ operation \in Involutions) =>
        apply(operation, hexagram) = previous

\* C12, reached: ReverseBottomTrigram was applied to hexagram 3, whose
\* bottom trigram is not a palindrome, gave another hexagram, and applied
\* to that one gives hexagram 3 again.
C12_Witness ==
    /\ Applied
    /\ Cardinality(Involutions) = 13
    /\ operation = <<"ReverseBottomTrigram">>
    /\ previous = Entry(3)
    /\ hexagram # previous
    /\ apply(operation, hexagram) = previous

\* C13: MirrorTrigrams is the composition of ReverseBottomTrigram and
\* ReverseTopTrigram in either order.  It is not ReverseHexagram:
\* ReverseHexagram gives the mirrored hexagram with its two trigrams
\* exchanged, so the two results are equal only when the mirrored
\* trigrams are equal.
C13_MirrorIsBothReversals ==
    (Applied /\ operation = <<"MirrorTrigrams">>) =>
        /\ hexagram = apply(<<"ReverseTopTrigram">>,
                            apply(<<"ReverseBottomTrigram">>, previous))
        /\ hexagram = apply(<<"ReverseBottomTrigram">>,
                            apply(<<"ReverseTopTrigram">>, previous))
        /\ apply(<<"ReverseHexagram">>, previous).lines
              = hexagram_trigrams.top.lines \o hexagram_trigrams.bottom.lines
        /\ (hexagram = apply(<<"ReverseHexagram">>, previous))
              <=> (hexagram_trigrams.top.lines = hexagram_trigrams.bottom.lines)

\* C13, reached: MirrorTrigrams applied to hexagram 3 gives the hexagram
\* of both reversals, which is not the one ReverseHexagram gives.
C13_Witness ==
    /\ Applied
    /\ operation = <<"MirrorTrigrams">>
    /\ previous = Entry(3)
    /\ hexagram # previous
    /\ hexagram = apply(<<"ReverseTopTrigram">>,
                        apply(<<"ReverseBottomTrigram">>, previous))
    /\ hexagram # apply(<<"ReverseHexagram">>, previous)

\* C14: every operation, NoOp included, is closed over the catalogue: the
\* hexagram apply returns is a catalogue entry, number and lines, so no
\* index lookup followed by unwrap() fails, neither in the transform nor
\* in Hexagram::trigrams of the result, whose trigram numbers are those
\* of TRIGRAMS entries.
C14_ClosedOverCatalogue ==
    (pc \in {"hexagram", "panic"} /\ previous # None) =>
        /\ pc = "hexagram"
        /\ hexagram # None
        /\ \E n \in 1..64 : hexagram = Entry(n)
        /\ index_entry # None
        /\ hexagram_trigrams.bottom.number \in {TRIGRAMS[t][1] : t \in 1..8}
        /\ hexagram_trigrams.top.number \in {TRIGRAMS[t][1] : t \in 1..8}

\* C14, reached: NuclearTrigrams, which does not permute the lines, was
\* applied to hexagram 3 and returned another catalogue entry.
C14_Witness ==
    /\ Applied
    /\ operation = <<"NuclearTrigrams">>
    /\ previous = Entry(3)
    /\ hexagram # previous
    /\ \E n \in 1..64 : hexagram = Entry(n)

\* The place of a HexagramLine in the order of the enum's variants.
Ordinal(line) ==
    CHOOSE i \in 1..6 :
        <<"First", "Second", "Third", "Fourth", "Fifth", "Sixth">>[i] = line

\* C16: InverseLine(p) changes the hexagram at the line p names and at no
\* other line (Hamming distance 1); InverseBottomTrigram and
\* ReverseBottomTrigram leave the three top lines as they were, and
\* InverseTopTrigram and ReverseTopTrigram leave the three bottom lines
\* as they were.
C16_Frame ==
    Applied =>
        /\ operation[1] = "InverseLine" =>
              /\ {i \in 1..6 : hexagram.lines[i] # previous.lines[i]}
                    = {Ordinal(operation[2])}
              /\ Hamming(hexagram, previous) = 1
        /\ operation[1] \in {"InverseBottomTrigram", "ReverseBottomTrigram"} =>
              \A i \in 4..6 : hexagram.lines[i] = previous.lines[i]
        /\ operation[1] \in {"InverseTopTrigram", "ReverseTopTrigram"} =>
              \A i \in 1..3 : hexagram.lines[i] = previous.lines[i]

\* C16, reached: InverseLine(Second) applied to hexagram 3 changed its
\* second line only.
C16_Witness ==
    /\ Applied
    /\ operation = <<"InverseLine", "Second">>
    /\ previous = Entry(3)
    /\ hexagram.lines[2] # previous.lines[2]
    /\ \A i \in {1, 3, 4, 5, 6} : hexagram.lines[i] = previous.lines[i]

\* The number TRIGRAMS gives to a pattern of three lines, read off the
\* table without the index; 0 if the table has no such pattern.
TrigramNumberOf(lines) ==
    LET same(t) == \A i \in 1..3 :
                      (TRIGRAMS[t][2][i] = 0) <=> (lines[i] = "Open")
    IN  IF \E t \in 1..8 : same(t)
        THEN TRIGRAMS[CHOOSE t \in 1..8 : same(t)][1]
        ELSE 0

\* C19: Hexagram::trigrams returns as bottom trigram the lines 0, 1, 2 of
\* the hexagram and as top trigram its lines 3, 4, 5, in that order, and
\* the number of each trigram is the number TRIGRAMS gives its pattern.
C19_Trigrams ==
    pc = "hexagram" =>
        /\ hexagram_trigrams.bottom.lines
              = <<hexagram.lines[1], hexagram.lines[2], hexagram.lines[3]>>
        /\ hexagram_trigrams.top.lines
              = <<hexagram.lines[4], hexagram.lines[5], hexagram.lines[6]>>
        /\ hexagram_trigrams.bottom.number
              = TrigramNumberOf(hexagram_trigrams.bottom.lines)
        /\ hexagram_trigrams.top.number
              = TrigramNumberOf(hexagram_trigrams.top.lines)
        /\ hexagram_trigrams.bottom.number # 0
        /\ hexagram_trigrams.top.number # 0

\* C19, reached: hexagram 3 (Closed Open Open, Open Closed Open) was
\* created; its bottom trigram is number 2 and its top trigram number 3.
C19_Witness ==
    /\ JustCreated
    /\ hexagram.number = 3
    /\ hexagram_trigrams.bottom = [number |-> 2, lines |-> <<"Closed", "Open", "Open">>]
    /\ hexagram_trigrams.top = [number |-> 3, lines |-> <<"Open", "Closed", "Open">>]

\* C15: for every pair of the 64 hexagrams, equal hexagrams included,
\* find_shortest_paths terminates and a path exists: the loop has ended
\* with a recorded goal path, not by running out of paths or of memory
\* with nothing recorded.
C15_TerminatesWithPath ==
    SearchEnded =>
        /\ pc = "returned"
        /\ shortest_paths # <<>>
        /\ \A i \in 1..Len(shortest_paths) :
              shortest_paths[i][Len(shortest_paths[i])][1] = searcher.end_hexagram

\* C15 for the pairs of different hexagrams only.
C15_TerminatesForDistinctPair ==
    (SearchEnded /\ start # end) =>
        /\ pc = "returned"
        /\ shortest_paths # <<>>
        /\ \A i \in 1..Len(shortest_paths) :
              shortest_paths[i][Len(shortest_paths[i])][1] = searcher.end_hexagram

\* The number of shortest paths from entry a to entry b that have the
\* least total line-change count, counted over the labelled walks of the
\* graph.
SurvivingPaths(a, b) ==
    LET least(ps) ==
            Cardinality({p \in ps : \A q \in ps :
                            TotalLineChanges(p) <= TotalLineChanges(q)})
    IN  least(PathsOfLength(Entry(a), Entry(b), PairDistance(a, b)))

\* Long division of eight 16-bit limbs by k, from limb i down to the
\* least significant one, with the remainder r of the limbs above: the
\* final remainder followed by the quotient's limbs 1..i.
RECURSIVE DivLimbs(_, _, _, _)
DivLimbs(limbs, k, i, r) ==
    IF i = 0 THEN <<r>>
    ELSE LET v == r * 65536 + limbs[i]
         IN  DivLimbs(limbs, k, i - 1, v % k) \o <<v \div k>>

\* The limbs are exactly the product, as a natural number, of the
\* surviving path counts of the consecutive pairs of seq: dividing by
\* each count in turn leaves no remainder and ends at 1.
RECURSIVE IsProductOfPairs(_, _)
IsProductOfPairs(limbs, seq) ==
    IF Len(seq) < 2 THEN limbs = <<1, 0, 0, 0, 0, 0, 0, 0>>
    ELSE LET divided(q) ==
                /\ q[1] = 0
                /\ IsProductOfPairs([i \in 1..8 |-> q[i + 1]], Tail(seq))
         IN  divided(DivLimbs(limbs, SurvivingPaths(seq[1], seq[2]), 8, 0))

\* C17: when SequenceAnalysis::new succeeds, total_paths is exactly the
\* product, over the consecutive pairs, of the number of paths that
\* survive the least-line-changes filter, and 1 when there is no pair;
\* for King Wen's sequence 1..64 the u128 holds the product itself, with
\* nothing lost to overflow or wrap-around.
C17_TotalPaths ==
    (AnalysisEnded /\ analysis.status = "ok") =>
        /\ Len(analysis.total_paths) = 8
        /\ \A i \in 1..8 : analysis.total_paths[i] \in 0..65535
        /\ IsProductOfPairs(analysis.total_paths, sequence)
        /\ Len(sequence) < 2 => analysis.total_paths = <<1, 0, 0, 0, 0, 0, 0, 0>>

\* C17, reached: King Wen's sequence has been analysed, and the product
\* of its 63 counts does not fit in 32 bits.
C17_Witness ==
    /\ pc = "analysed"
    /\ sequence = king_wen
    /\ analysis.status = "ok"
    /\ Len(analysis.shortest_paths) = 63
    /\ analysis.total_paths = <<0, 8192, 10, 0, 0, 0, 0, 0>>

\* C18: every generated reading is six throw values, each one of 6, 7, 8
\* and 9.  coin_line returns the sum of three draws that are 2 or 3 each;
\* yarrow_stalk_line starts from 49 stalks and, whatever right pile of
\* 1..=num_stalks-2 stalks each of its three splits draws, returns a
\* number of groups that is 6, 7, 8 or 9.
C18_ThrowValues ==
    /\ pc \in {"coin_reading", "yarrow_stalk_reading", "thrown"} =>
          /\ Len(reading) <= 6
          /\ \A i \in 1..Len(reading) : reading[i] \in {6, 7, 8, 9}
    /\ pc = "thrown" => Len(reading) = 6
    /\ method # "none" => pc # "panic"

\* C18, reached: a reading of six lines generated with yarrow stalks in
\* which each of the four values occurs.
C18_Witness ==
    /\ pc = "thrown"
    /\ method = "YarrowStalks"
    /\ reading = <<6, 7, 8, 9, 9, 6>>

\* A reading of six lines generated with coins in which each of the four
\* values occurs.
C18_CoinWitness ==
    /\ pc = "thrown"
    /\ method = "Coin"
    /\ reading = <<9, 8, 7, 6, 6, 9>>

\* C20: the level order of the search loop.  At every step the queue
\* holds its paths in non-decreasing order of length, and their lengths
\* differ by at most 1; all recorded goal paths have the same length;
\* that length is one more than the length of the path that was being
\* expanded when they were recorded; and the loop stops at the first
\* popped path that is as long as the recorded paths, so that no path
\* longer than the first recorded one is ever recorded.
C20_LevelOrder ==
    pc \in {"loop", "loop_ended", "out_of_memory", "returned"} =>
        /\ \A i \in 1..(Len(queue) - 1) : Len(queue[i]) <= Len(queue[i + 1])
        /\ queue # <<>> => Len(queue[Len(queue)]) <= Len(queue[1]) + 1
        /\ \A i \in 1..Len(shortest_paths) :
              Len(shortest_paths[i]) = Len(shortest_paths[1])
        /\ (pc \in {"loop", "out_of_memory"} /\ shortest_paths # <<>>) =>
              Len(shortest_paths[1]) = Len(path) + 1
        /\ (pc \in {"loop_ended", "returned"} /\ shortest_paths # <<>>) =>
              Len(path) = Len(shortest_paths[1])
        /\ (pc \in {"loop_ended", "returned"} /\ shortest_paths = <<>>) =>
              queue = <<>>

\* C20, reached: in the search from hexagram 1 to hexagram 3, three
\* operations apart, several paths of four hexagrams are recorded, the
\* loop is still expanding paths of three hexagrams, and the queue holds
\* paths of three and of four hexagrams.
C20_Witness ==
    /\ pc = "loop"
    /\ start = 1 /\ end = 3
    /\ Len(shortest_paths) > 1
    /\ Len(path) = 3
    /\ Len(shortest_paths[1]) = 4
    /\ Len(queue[1]) = 3
    /\ Len(queue[Len(queue)]) = 4

\* The loop of that search has stopped at the first path of four
\* hexagrams it popped, with paths left in the queue.
C20_StoppedWitness ==
    /\ pc = "loop_ended"
    /\ start = 1 /\ end = 3
    /\ Len(path) = 4
    /\ Len(shortest_paths[1]) = 4
    /\ queue # <<>>

\* A path as the loop builds it: its first element is the start hexagram
\* labelled NoOp; every later element is labelled with one of
\* all_operations and holds the hexagram that operation makes of the
\* hexagram before it; and no hexagram occurs in it twice.
WellFormedPath(p) ==
    /\ p # <<>>
    /\ p[1] = <<searcher.start_hexagram, NoOp>>
    /\ \A i \in 2..Len(p) :
          /\ p[i][2] # NoOp
          /\ \E k \in 1..Len(all_operations) : p[i][2] = all_operations[k]
          /\ p[i][1] = apply(p[i][2], p[i - 1][1])
    /\ \A i \in 1..Len(p) : \A j \in 1..Len(p) : p[i][1] = p[j][1] => i = j

\* C21: the well-formedness of paths.  At every step of the search loop,
\* and in what the search returns, every path of the queue, every recorded
\* path and every returned path contains no hexagram twice, starts with
\* the start hexagram labelled NoOp, labels no other element NoOp, and
\* holds in each later element an operation of all_operations with the
\* hexagram it makes of the one before; and when start and end differ no
\* path of the queue contains the end hexagram.
C21_WellFormedPaths ==
    pc \in {"loop", "loop_ended", "out_of_memory", "returned"} =>
        /\ \A i \in 1..Len(queue) : WellFormedPath(queue[i])
        /\ \A i \in 1..Len(shortest_paths) : WellFormedPath(shortest_paths[i])
        /\ \A i \in 1..Len(result) : WellFormedPath(result[i])
        /\ start # end =>
              \A i \in 1..Len(queue) : \A j \in 1..Len(queue[i]) :
                 queue[i][j][1] # searcher.end_hexagram

\* C21, reached: in the search from hexagram 1 to hexagram 3 the queue
\* holds paths of three hexagrams, two of them different paths that end
\* in the same hexagram, and goal paths have been recorded.
C21_Witness ==
    /\ pc = "loop"
    /\ start = 1 /\ end = 3
    /\ shortest_paths # <<>>
    /\ \E i \in 1..Len(queue) : \E j \in 1..Len(queue) :
          /\ i # j
          /\ Len(queue[i]) = 3 /\ Len(queue[j]) = 3
          /\ queue[i][3][1] = queue[j][3][1]
          /\ queue[i][2][1] # queue[j][2][1]

\* The search from 1 to 3 has returned its paths, each of four hexagrams.
C21_ReturnedWitness ==
    /\ pc = "returned"
    /\ start = 1 /\ end = 3
    /\ result # <<>>
    /\ \A i \in 1..Len(result) : Len(result[i]) = 4

\* C22: SequenceAnalysis::new returns Ok for every sequence of numbers of
\* 1..64, sequences with two equal consecutive entries included, and
\* every list of paths it indexes at paths[0], one per pair of consecutive
\* entries, is non-empty.
C22_OkForEverySequence ==
    (AnalysisEnded /\ \A i \in 1..Len(sequence) : sequence[i] \in 1..64) =>
        /\ pc = "analysed"
        /\ analysis.status = "ok"
        /\ Len(analysis.shortest_paths) = num_pairs(sequence)
        /\ \A i \in 1..Len(analysis.shortest_paths) :
              analysis.shortest_paths[i] # <<>>

\* C22 for the sequences in which no two consecutive entries are equal.
C22_OkForDistinctNeighbours ==
    (/\ AnalysisEnded
     /\ \A i \in 1..Len(sequence) : sequence[i] \in 1..64
     /\ \A i \in 1..(Len(sequence) - 1) : sequence[i] # sequence[i + 1]) =>
        /\ pc = "analysed"
        /\ analysis.status = "ok"
        /\ Len(analysis.shortest_paths) = num_pairs(sequence)
        /\ \A i \in 1..Len(analysis.shortest_paths) :
              analysis.shortest_paths[i] # <<>>

\* The analysis of a sequence with two equal consecutive entries has not
\* returned Ok.
C22_EqualNeighboursFail ==
    /\ AnalysisEnded
    /\ sequence = <<1, 2, 2>>
    /\ analysis.status = "out_of_memory"
    /\ analysis.searches = 2

\* C23: the Reading of six throws.  When every throw is one of 6..9,
\* generate_reading returns a Reading whose present hexagram has, at each
\* position, an Open line for a throw of 6 or 8 and a Closed line for a
\* throw of 7 or 9; whose changing_lines are exactly the indexes, counted
\* from 0, of the throws that are 6 or 9; whose future hexagram is None if
\* and only if no line changes; and whose future hexagram, when there is
\* one, is the catalogue entry with a Closed line for 6 and 7 and an Open
\* line for 8 and 9, which is the present hexagram with exactly the
\* changing lines inverted.  When some throw is outside 6..9 it returns
\* the error for the first such throw, and no Reading.
C23_ReadingOfThrows ==
    (pc \in {"generated", "error"} /\ generated.status # "none") =>
        IF \A i \in 1..6 : reading[i] \in 6..9
        THEN /\ pc = "generated"
             /\ generated.status = "ok"
             /\ \E n \in 1..64 : generated.present = Entry(n)
             /\ \A i \in 1..6 :
                   generated.present.lines[i] =
                      IF reading[i] \in {6, 8} THEN "Open" ELSE "Closed"
             /\ generated.changing_lines =
                   {i - 1 : i \in {j \in 1..6 : reading[j] \in {6, 9}}}
             /\ generated.future = None <=> generated.changing_lines = {}
             /\ generated.future # None =>
                   /\ \E n \in 1..64 : generated.future = Entry(n)
                   /\ \A i \in 1..6 :
                         /\ generated.future.lines[i] =
                               IF reading[i] \in {6, 7} THEN "Closed" ELSE "Open"
                         /\ generated.future.lines[i] =
                               IF i - 1 \in generated.changing_lines
                               THEN LineInverse(generated.present.lines[i])
                               ELSE generated.present.lines[i]
        ELSE /\ pc = "error"
             /\ generated.status = "error"
             /\ generated.present = None /\ generated.future = None
             /\ \E i \in 1..6 :
                   /\ reading[i] \notin 6..9
                   /\ \A j \in 1..(i - 1) : reading[j] \in 6..9
                   /\ generated.error = <<"bad throw", reading[i]>>

\* C23, reached: the throws 6, 7, 8, 9, 9, 6 have given a Reading with the
\* changing lines 0, 3, 4 and 5 and a future hexagram.
C23_Witness ==
    /\ pc = "generated"
    /\ reading = <<6, 7, 8, 9, 9, 6>>
    /\ generated.changing_lines = {0, 3, 4, 5}
    /\ generated.present.lines = <<"Open", "Closed", "Open", "Closed", "Closed", "Open">>
    /\ generated.future # None
    /\ generated.future.lines = <<"Closed", "Closed", "Open", "Open", "Open", "Closed">>

\* Throws of 7 and 8 only have given a Reading without a future hexagram.
C23_NoChangeWitness ==
    /\ pc = "generated"
    /\ reading = <<7, 8, 7, 8, 8, 7>>
    /\ generated.changing_lines = {}
    /\ generated.future = None

\* A throw of 10 after two good throws has given the error and no Reading.
C23_BadThrowWitness ==
    /\ pc = "error"
    /\ reading = <<6, 9, 10, 5, 7, 8>>
    /\ generated.error = <<"bad throw", 10>>
    /\ generated.present = None

\* What HexagramSearcher::new(end, start)?.find_shortest_paths(all) does: the
\* search of the state, the other way round.
SearchBack ==
    LET ended(run) ==
            [status |-> run.status,
             paths  |-> IF run.status = "returned"
                        THEN find_shortest_paths_return(run.shortest_paths, all)
                        ELSE <<>>]
    IN  ended(find_shortest_paths_loop(HexagramSearcher_new(end, start)))

\* A search between two different numbers of 1..64 is over.
DistinctPairSearched ==
    /\ pc \notin {"start", "searcher"}
    /\ start \in 1..64 /\ end \in 1..64
    /\ start # end

\* C24 as claimed: for every pair a # b of 1..64, the paths that
\* find_shortest_paths returns for (a, b) have as many edges as the paths
\* it returns for (b, a).
C24_SymmetricDistance ==
    DistinctPairSearched =>
        LET equal(back) ==
                /\ pc = "returned" /\ result # <<>>
                /\ back.status = "returned" /\ back.paths # <<>>
                /\ \A i \in 1..Len(result) : \A j \in 1..Len(back.paths) :
                      Len(result[i]) = Len(back.paths[j])
        IN  equal(SearchBack)

\* C24, amended: for every pair a # b of 1..64, find_shortest_paths returns
\* paths for (a, b) and for (b, a), and their edge counts differ by at
\* most one.
C24_DistancesDifferByAtMostOne ==
    DistinctPairSearched =>
        LET close(back) ==
                /\ pc = "returned" /\ result # <<>>
                /\ back.status = "returned" /\ back.paths # <<>>
                /\ \A i \in 1..Len(result) : \A j \in 1..Len(back.paths) :
                      /\ Len(result[i]) <= Len(back.paths[j]) + 1
                      /\ Len(back.paths[j]) <= Len(result[i]) + 1
        IN  close(SearchBack)

\* C24, reached: the search from hexagram 28 to hexagram 1 has returned
\* the one-edge path of NuclearTrigrams, and the search back from 1 to 28
\* returns paths of two edges.
C24_Witness ==
    /\ pc = "returned"
    /\ start = 28 /\ end = 1
    /\ Len(result[1]) = 2
    /\ result[1][2][2] = <<"NuclearTrigrams">>
    /\ SearchBack.status = "returned"
    /\ Len(SearchBack.paths[1]) = 3

\* A pair at the same distance both ways: 1 to 2 and 2 to 1, one edge each.
C24_SymmetricWitness ==
    /\ pc = "returned"
    /\ start = 1 /\ end = 2
    /\ Len(result[1]) = 2
    /\ Len(SearchBack.paths[1]) = 2

\* The stalk counts that may enter the split after `done` splits of a line.
StalksEntering(done) ==
    CASE done = 0 -> {49}
      [] done = 1 -> {40, 44}
      [] done = 2 -> {32, 36, 40}

\* C25: no u8 subtraction of the yarrow-stalk procedure underflows.
\* Whenever a split is about to be made, the stalk count entering it is 49
\* for the first split of a line, 40 or 44 for the second, and 32, 36 or
\* 40 for the third; and for every right pile of 1..=num_stalks-2 stalks,
\* num_stalks - 2, num_stalks - right - 1, each pile less its
\* pile_reminder, and num_stalks less the two reminders and 1 are all
\* computed without underflow, and the left pile, one stalk removed, has
\* at least one stalk.  No split panics.
C25_NoUnderflow ==
    /\ method = "YarrowStalks" => pc # "panic"
    /\ pc = "yarrow_stalk_reading" =>
          /\ split \in 0..2
          /\ num_stalks \in StalksEntering(split)
          /\ ~u8_sub(num_stalks, 2).overflow
          /\ \A right \in 1..u8_sub(num_stalks, 2).value :
                LET left == u8_sub(u8_sub(num_stalks, right).value, 1)
                IN  /\ ~u8_sub(num_stalks, right).overflow
                    /\ ~left.overflow
                    /\ left.value >= 1
                    /\ ~u8_sub(right, pile_reminder(right)).overflow
                    /\ ~u8_sub(left.value, pile_reminder(left.value)).overflow
                    /\ num_stalks - pile_reminder(right)
                          - pile_reminder(left.value) - 1 >= 0
                    /\ ~yarrow_stalk_split(num_stalks, right).overflow

\* C25, reached: the third split of the fourth line is about to be made
\* with 32 stalks.
C25_Witness ==
    /\ pc = "yarrow_stalk_reading"
    /\ Len(reading) = 3
    /\ split = 2
    /\ num_stalks = 32

\* The third split of a line is about to be made with 40 stalks.
C25_FortyWitness ==
    /\ pc = "yarrow_stalk_reading"
    /\ split = 2
    /\ num_stalks = 40

\* The second split of a line is about to be made with 40 stalks.
C25_SecondSplitWitness ==
    /\ pc = "yarrow_stalk_reading"
    /\ split = 1
    /\ num_stalks = 40

====
